---- MODULE Spec2Model ----
(***************************************************************************)
(* Model of the sandboxed filesystem server (package filesystemserver).    *)
(*                                                                         *)
(* Strings are sequences of one-character strings, so that the prefix and  *)
(* suffix tests, Clean, Dir and the ".backup" suffix of the Go code are    *)
(* computed character by character, as the code computes them.             *)
(* The filesystem is a function from clean absolute paths to nodes         *)
(* (directory, regular file with its bytes, symbolic link with its         *)
(* target); the root directory "/" is implicit.                            *)
(***************************************************************************)
EXTENDS Integers, Sequences, FiniteSets, TLC

VARIABLES
    allowedDirs,  \* FilesystemHandler.allowedDirs: the separator-terminated roots
    fs,           \* the filesystem now
    pre,          \* the filesystem when the last request began
    res,          \* the last request and what the handler returned for it
    nreq,         \* number of requests served
    hist,         \* the results returned so far, where a specification keeps them
    watch,        \* the watch_file call in progress: its position and its locals
    clock,        \* the time, in seconds
    mtime         \* what os.Stat answers now for each path that may be watched

vars == <<allowedDirs, fs, pre, res, nreq, hist, watch, clock, mtime>>

(***************************************************************************)
(* Bounds of the model.                                                    *)
(***************************************************************************)
MaxRequests == 2
MaxDepth == 2
MaxNest == 4

(***************************************************************************)
(* package strings, on sequences of characters.                            *)
(***************************************************************************)
Sep == "/"

HasPrefix(s, p) == Len(p) <= Len(s) /\ SubSeq(s, 1, Len(p)) = p

HasSuffix(s, p) == Len(p) <= Len(s) /\ SubSeq(s, Len(s) - Len(p) + 1, Len(s)) = p

\* strings.Index, 1-based; 0 when sub does not occur (Go: -1).
Index(s, sub) ==
    LET hits == {i \in 1..(Len(s) - Len(sub) + 1) : SubSeq(s, i, i + Len(sub) - 1) = sub}
    IN  IF hits = {} THEN 0 ELSE CHOOSE i \in hits : \A j \in hits : i <= j

Contains(s, sub) == Index(s, sub) # 0

RECURSIVE Count(_, _)
\* strings.Count: non-overlapping occurrences; Len(s)+1 for the empty sub.
Count(s, sub) ==
    IF sub = <<>> THEN Len(s) + 1
    ELSE LET i == Index(s, sub)
         IN  IF i = 0 THEN 0
             ELSE 1 + Count(SubSeq(s, i + Len(sub), Len(s)), sub)

RECURSIVE Interleave(_, _)
\* strings.ReplaceAll(s, "", new) after the first insertion: new after every character.
Interleave(s, new) ==
    IF s = <<>> THEN <<>> ELSE <<Head(s)>> \o new \o Interleave(Tail(s), new)

RECURSIVE ReplaceN(_, _, _, _)
\* strings.Replace(s, old, new, n) for a non-empty old; n < 0 replaces all.
ReplaceN(s, old, new, n) ==
    LET i == Index(s, old)
    IN  IF n = 0 \/ i = 0 THEN s
        ELSE SubSeq(s, 1, i - 1) \o new
             \o ReplaceN(SubSeq(s, i + Len(old), Len(s)), old, new, n - 1)

ReplaceAll(s, old, new) ==
    IF old = <<>> THEN new \o Interleave(s, new) ELSE ReplaceN(s, old, new, -1)

ReplaceFirst(s, old, new) ==
    IF old = <<>> THEN new \o s ELSE ReplaceN(s, old, new, 1)

RECURSIVE Split(_, _)
\* strings.Split(s, sep) for a one-character separator.
Split(s, c) ==
    LET i == Index(s, <<c>>)
    IN  IF i = 0 THEN <<s>>
        ELSE <<SubSeq(s, 1, i - 1)>> \o Split(SubSeq(s, i + 1, Len(s)), c)

RECURSIVE Join(_, _)
\* strings.Join(parts, sep)
Join(parts, sep) ==
    IF parts = <<>> THEN <<>>
    ELSE IF Len(parts) = 1 THEN parts[1]
    ELSE parts[1] \o sep \o Join(Tail(parts), sep)

(***************************************************************************)
(* package path/filepath (Unix).                                           *)
(***************************************************************************)
RECURSIVE CleanComps(_, _)
\* The element loop of filepath.Clean on a rooted path: "" and "." are dropped,
\* ".." removes the element before it (and is dropped at the root).
CleanComps(done, rest) ==
    IF rest = <<>> THEN done
    ELSE LET c == Head(rest)
         IN  IF c = <<>> \/ c = <<".">> THEN CleanComps(done, Tail(rest))
             ELSE IF c = <<".", ".">>
                  THEN CleanComps(IF done = <<>> THEN done
                                  ELSE SubSeq(done, 1, Len(done) - 1), Tail(rest))
             ELSE CleanComps(Append(done, c), Tail(rest))

\* The elements of a rooted path.
Comps(p) == CleanComps(<<>>, Split(p, Sep))

RECURSIVE FromComps(_)
FromComps(cs) == IF cs = <<>> THEN <<>> ELSE <<Sep>> \o Head(cs) \o FromComps(Tail(cs))

CleanFrom(cs) == IF cs = <<>> THEN <<Sep>> ELSE FromComps(cs)

\* filepath.Clean of a rooted path.
Clean(p) == CleanFrom(Comps(p))

\* os.Getwd(): the working directory of the server process.
Cwd == <<"/", "d", "/", "k">>

\* filepath.Abs: Clean of the path, joined to the working directory when relative.
Abs(p) == IF HasPrefix(p, <<Sep>>) THEN Clean(p) ELSE Clean(Cwd \o <<Sep>> \o p)

DirFrom(cs) == IF Len(cs) <= 1 THEN <<Sep>> ELSE FromComps(SubSeq(cs, 1, Len(cs) - 1))

\* filepath.Dir of a clean rooted path.
Dir(p) == DirFrom(Comps(p))

BaseFrom(cs) == IF cs = <<>> THEN <<Sep>> ELSE cs[Len(cs)]

\* filepath.Base of a clean rooted path.
Base(p) == BaseFrom(Comps(p))

\* filepath.Join(dir, name)
JoinPath(dir, name) == Clean(dir \o <<Sep>> \o name)

(***************************************************************************)
(* The operating system's filesystem: path resolution and the os calls.    *)
(* Each call is written as the path resolution followed by what the call   *)
(* does with its result.                                                   *)
(***************************************************************************)
\* A node of the filesystem.  A file has its content (data), its size in bytes
\* and the MIME type its content is detected as; the files the program writes
\* are texts of the size of what was written, while a file that was there
\* before may be larger than the part of it the model spells out.
Dirent == [kind |-> "dir", target |-> <<>>, data |-> <<>>, size |-> 0, mime |-> ""]
FileOf(d, size, mime) ==
    [kind |-> "file", target |-> <<>>, data |-> d, size |-> size, mime |-> mime]
File(d) == FileOf(d, Len(d), "text/plain")
Link(t) == [kind |-> "link", target |-> t, data |-> <<>>, size |-> 0, mime |-> ""]

\* Most symbolic links the kernel follows in one resolution.
MaxLinks == 3

Reached(err, path, creatable) == [err |-> err, path |-> path, creatable |-> creatable]

RECURSIVE Walk(_, _, _, _, _)
\* Path resolution in filesystem f: cur is the real directory reached (<<>> is
\* the root), rest the elements still to walk.  The result names the real path
\* reached, or the error; on ENOENT for the last element of an existing real
\* directory, path is where a create would put the file.
Walk(f, cur, rest, followLast, fuel) ==
    IF rest = <<>>
    THEN Reached("", IF cur = <<>> THEN <<Sep>> ELSE cur, FALSE)
    ELSE LET next == cur \o <<Sep>> \o Head(rest)
             last == Len(rest) = 1
         IN  IF next \notin DOMAIN f THEN Reached("ENOENT", next, last)
             ELSE IF f[next].kind = "link"
             THEN IF last /\ ~followLast THEN Reached("", next, FALSE)
                  ELSE IF fuel = 0 THEN Reached("ELOOP", next, FALSE)
                  ELSE Walk(f, <<>>, Comps(f[next].target) \o Tail(rest),
                            followLast, fuel - 1)
             ELSE IF f[next].kind = "file"
             THEN Reached(IF last THEN "" ELSE "ENOTDIR", next, FALSE)
             ELSE Walk(f, next, Tail(rest), followLast, fuel)

\* Resolution that follows a symbolic link at the last element (stat, open).
Resolve(f, p) == Walk(f, <<>>, Comps(p), TRUE, MaxLinks)

\* Resolution that does not (lstat, unlink, mkdir).
ResolveNoFollow(f, p) == Walk(f, <<>>, Comps(p), FALSE, MaxLinks)

\* The node at a real path (the root is a directory).
NodeAt(f, real) == IF real = <<Sep>> THEN Dirent ELSE f[real]

StatOf(f, r) ==
    IF r.err # "" THEN [err |-> r.err, isDir |-> FALSE]
    ELSE [err |-> "", isDir |-> NodeAt(f, r.path).kind = "dir"]

\* os.Stat(p): follows symbolic links.
Stat(f, p) == StatOf(f, Resolve(f, p))

EvalOf(r) == IF r.err # "" THEN [err |-> r.err, path |-> <<>>] ELSE [err |-> "", path |-> r.path]

\* filepath.EvalSymlinks(p): the real path, or the error of the first element
\* that cannot be resolved.
EvalSymlinks(f, p) == EvalOf(Resolve(f, p))

\* os.IsNotExist(err)
IsNotExist(err) == err = "ENOENT"

\* One system call issued by a handler, as recorded in the request's log.
Sys(call, path) == [call |-> call, path |-> path]

PartialWrite(data, fault) ==
    IF fault = "short" /\ data # <<>> THEN SubSeq(data, 1, Len(data) - 1) ELSE <<>>

WriteAt(f, r, data, fault) ==
    IF ~(r.err = "" \/ (r.err = "ENOENT" /\ r.creatable))
    THEN [err |-> r.err, fs |-> f, real |-> <<>>]
    ELSE IF r.err = "" /\ NodeAt(f, r.path).kind = "dir"
    THEN [err |-> "EISDIR", fs |-> f, real |-> <<>>]
    ELSE IF fault = "open" THEN [err |-> "EACCES", fs |-> f, real |-> <<>>]
    ELSE IF fault = "none"
    THEN [err |-> "", fs |-> (r.path :> File(data)) @@ f, real |-> r.path]
    ELSE [err |-> "ENOSPC", fs |-> (r.path :> File(PartialWrite(data, fault))) @@ f,
          real |-> r.path]

\* os.WriteFile(p, data): open(O_WRONLY|O_CREATE|O_TRUNC) through symbolic links,
\* write, close.  fault "open" fails before the file is created or truncated;
\* "short" fails in the write, leaving the file one byte short.
osWriteFile(f, p, data, fault) == WriteAt(f, Resolve(f, p), data, fault)

Grown(node, data) == FileOf(node.data \o data, node.size + Len(data), node.mime)

AppendAt(f, r, data, fault) ==
    IF r.err # "" THEN [err |-> r.err, fs |-> f, real |-> <<>>]
    ELSE IF NodeAt(f, r.path).kind = "dir" THEN [err |-> "EISDIR", fs |-> f, real |-> <<>>]
    ELSE IF fault = "open" THEN [err |-> "EACCES", fs |-> f, real |-> <<>>]
    ELSE IF fault = "none"
    THEN [err |-> "", fs |-> [f EXCEPT ![r.path] = Grown(@, data)], real |-> r.path]
    ELSE [err |-> "ENOSPC", fs |-> [f EXCEPT ![r.path] = Grown(@, PartialWrite(data, fault))],
          real |-> r.path]

\* os.OpenFile(p, O_WRONLY|O_APPEND) and WriteString(data): the file must exist;
\* the bytes go after the ones it holds.
osAppendFile(f, p, data, fault) == AppendAt(f, Resolve(f, p), data, fault)

ReadAt(f, r, fault) ==
    IF r.err # "" THEN [err |-> r.err, data |-> <<>>]
    ELSE IF NodeAt(f, r.path).kind = "dir" THEN [err |-> "EISDIR", data |-> <<>>]
    ELSE IF fault # "none" THEN [err |-> "EIO", data |-> <<>>]
    ELSE [err |-> "", data |-> f[r.path].data]

\* os.ReadFile(p)
osReadFile(f, p, fault) == ReadAt(f, Resolve(f, p), fault)

RemoveAt(f, r) ==
    IF r.err # "" \/ r.path = <<Sep>> THEN f
    ELSE IF f[r.path].kind = "dir" /\ \E q \in DOMAIN f : HasPrefix(q, r.path \o <<Sep>>)
    THEN f
    ELSE [q \in DOMAIN f \ {r.path} |-> f[q]]

\* os.Remove(p): unlinks the name itself (no link is followed at the last
\* element); a directory that is not empty stays.
osRemove(f, p) == RemoveAt(f, ResolveNoFollow(f, p))

\* The names below directory p.
Below(f, p) == {q \in DOMAIN f : HasPrefix(q, p \o <<Sep>>)}

\* The filesystem once the node at from, with everything below it, has taken
\* the name to.
Renamed(f, from, to) ==
    [q \in (DOMAIN f \ ({from} \cup Below(f, from))) \cup {to}
           \cup {to \o SubSeq(b, Len(from) + 1, Len(b)) : b \in Below(f, from)} |->
        IF q = to THEN f[from]
        ELSE IF HasPrefix(q, to \o <<Sep>>) THEN f[from \o SubSeq(q, Len(to) + 1, Len(q))]
        ELSE f[q]]

RenameOnto(f, from, to, fault) ==
    IF from = to THEN [err |-> "", fs |-> f]
    ELSE IF from = <<Sep>> THEN [err |-> "EBUSY", fs |-> f]
    ELSE IF f[from].kind = "dir" /\ HasPrefix(to, from \o <<Sep>>) THEN [err |-> "EINVAL", fs |-> f]
    ELSE IF to \in DOMAIN f /\ f[to].kind = "dir" /\ (f[from].kind # "dir" \/ Below(f, to) # {})
    THEN [err |-> "EEXIST", fs |-> f]
    ELSE IF to \in DOMAIN f /\ f[to].kind # "dir" /\ f[from].kind = "dir"
    THEN [err |-> "ENOTDIR", fs |-> f]
    ELSE IF fault # "none" THEN [err |-> "EIO", fs |-> f]
    ELSE [err |-> "", fs |-> Renamed(f, from, to)]

RenameAt(f, from, to, fault) ==
    IF from.err # "" THEN [err |-> from.err, fs |-> f]
    ELSE IF ~(to.err = "" \/ (to.err = "ENOENT" /\ to.creatable)) THEN [err |-> to.err, fs |-> f]
    ELSE IF to.path = <<Sep>> THEN [err |-> "EEXIST", fs |-> f]
    ELSE RenameOnto(f, from.path, to.path, fault)

\* os.Rename(old, new): the name new is replaced in one step, unless it names a
\* directory that a file or a directory with entries cannot replace; a
\* directory moves with everything below it; no link is followed at the last
\* element of either name.
osRename(f, old, new, fault) ==
    RenameAt(f, ResolveNoFollow(f, old), ResolveNoFollow(f, new), fault)

RemoveAllAt(f, r) ==
    IF r.err # "" THEN [err |-> IF IsNotExist(r.err) THEN "" ELSE r.err, fs |-> f]
    ELSE IF r.path = <<Sep>> THEN [err |-> "EBUSY", fs |-> f]
    ELSE [err |-> "", fs |-> [q \in DOMAIN f \ ({r.path} \cup Below(f, r.path)) |-> f[q]]]

\* os.RemoveAll(p): the name and, for a directory, everything below it; a link
\* at the last element is removed, not followed; a missing name is no error.
osRemoveAll(f, p) == RemoveAllAt(f, ResolveNoFollow(f, p))

MkdirAt(f, r) ==
    IF r.err = "" THEN [err |-> "EEXIST", fs |-> f]
    ELSE IF r.err = "ENOENT" /\ r.creatable
    THEN [err |-> "", fs |-> (r.path :> Dirent) @@ f]
    ELSE [err |-> r.err, fs |-> f]

\* os.Mkdir(p)
osMkdir(f, p) == MkdirAt(f, ResolveNoFollow(f, p))

\* The end of os.MkdirAll: a failed Mkdir is forgiven when the directory exists.
MkdirAllDone(mk, again) ==
    IF mk.err = "" \/ (again.err = "" /\ again.isDir) THEN [err |-> "", fs |-> mk.fs] ELSE mk

MkdirAllMake(mk, p) == MkdirAllDone(mk, Stat(mk.fs, p))

MkdirAllUp(up, p) == IF up.err # "" THEN up ELSE MkdirAllMake(osMkdir(up.fs, p), p)

RECURSIVE osMkdirAll(_, _)
MkdirAllFrom(f, p, st) ==
    IF st.err = "" THEN [err |-> IF st.isDir THEN "" ELSE "ENOTDIR", fs |-> f]
    ELSE MkdirAllUp(osMkdirAll(f, Dir(p)), p)

\* os.MkdirAll(p): nothing to do for an existing directory; otherwise the parent
\* first, then the directory itself.
osMkdirAll(f, p) == MkdirAllFrom(f, p, Stat(f, p))

(***************************************************************************)
(* The path sandbox: handler_analyze.go.                                   *)
(***************************************************************************)
ErrPathOutside == "access denied - path outside allowed directories"
ErrSymlinkOutside == "access denied - symlink target outside allowed directories"
ErrParentOutside == "access denied - parent directory outside allowed directories"
ErrParentMissing == "parent directory does not exist"

\* NewFilesystemHandler: every argument must be an existing directory; the roots
\* are kept as Clean(Abs(dir)) + separator.
NewFilesystemHandlerOk(f, args) ==
    \A i \in 1..Len(args) : Stat(f, Abs(args[i])) = [err |-> "", isDir |-> TRUE]

\* A handler that keeps its roots without the trailing separator.
NewFilesystemHandlerBare(args) == [i \in 1..Len(args) |-> Clean(Abs(args[i]))]

NewFilesystemHandler(args) == [i \in 1..Len(args) |-> Clean(Abs(args[i])) \o <<Sep>>]

NotDirectory(info) == info.err = "" /\ ~info.isDir

\* The directory-suffix string isPathInAllowedDirs compares with the roots: a
\* path that is an existing non-directory is replaced by its directory.
DirSuffixForm(f, absPath) ==
    IF HasSuffix(absPath, <<Sep>>) THEN absPath
    ELSE IF NotDirectory(Stat(f, absPath)) THEN Dir(absPath) \o <<Sep>>
    ELSE absPath \o <<Sep>>

\* A prefix test that ignores the separator a root ends with.
HasAllowedPrefixLoose(dirs, absPath) ==
    \E i \in 1..Len(dirs) : HasPrefix(absPath, SubSeq(dirs[i], 1, Len(dirs[i]) - 1))

HasAllowedPrefix(dirs, absPath) == \E i \in 1..Len(dirs) : HasPrefix(absPath, dirs[i])

isPathInAllowedDirs(f, dirs, path) == HasAllowedPrefix(dirs, DirSuffixForm(f, Abs(path)))

StatLog(absPath) == IF HasSuffix(absPath, <<Sep>>) THEN {} ELSE {Sys("stat", absPath)}

\* The system calls isPathInAllowedDirs issues for path.
isPathInAllowedDirsSys(path) == StatLog(Abs(path))

Invalid(err, sys) == [err |-> err, path |-> <<>>, sys |-> sys]
Valid(path, sys) == [err |-> "", path |-> path, sys |-> sys]

\* A validateParent that does not check where the parent resolves to.
validateParentUnchecked(f, dirs, abs, realParent, sys) ==
    IF realParent.err # "" THEN Invalid(ErrParentMissing, sys) ELSE Valid(abs, sys)

\* validatePath once EvalSymlinks(abs) failed with "not exist": the parent is
\* resolved and checked, and the unresolved abs is returned.
validateParent(f, dirs, abs, realParent, sys) ==
    IF realParent.err # "" THEN Invalid(ErrParentMissing, sys)
    ELSE IF ~isPathInAllowedDirs(f, dirs, realParent.path)
    THEN Invalid(ErrParentOutside, sys \cup isPathInAllowedDirsSys(realParent.path))
    ELSE Valid(abs, sys \cup isPathInAllowedDirsSys(realParent.path))

\* A validateResolved that trusts the resolved path without the second check.
validateResolvedTrusting(f, dirs, abs, realPath, sys) ==
    IF realPath.err # ""
    THEN IF ~IsNotExist(realPath.err) THEN Invalid(realPath.err, sys)
         ELSE validateParent(f, dirs, abs, EvalSymlinks(f, Dir(abs)),
                             sys \cup {Sys("evalsymlinks", Dir(abs))})
    ELSE Valid(realPath.path, sys)

\* validatePath from the result of EvalSymlinks(abs) on.
validateResolved(f, dirs, abs, realPath, sys) ==
    IF realPath.err # ""
    THEN IF ~IsNotExist(realPath.err) THEN Invalid(realPath.err, sys)
         ELSE validateParent(f, dirs, abs, EvalSymlinks(f, Dir(abs)),
                             sys \cup {Sys("evalsymlinks", Dir(abs))})
    ELSE IF ~isPathInAllowedDirs(f, dirs, realPath.path)
    THEN Invalid(ErrSymlinkOutside, sys \cup isPathInAllowedDirsSys(realPath.path))
    ELSE Valid(realPath.path, sys \cup isPathInAllowedDirsSys(realPath.path))

\* validatePath from the absolute path on.
validateAbs(f, dirs, abs) ==
    IF ~isPathInAllowedDirs(f, dirs, abs)
    THEN Invalid(ErrPathOutside, isPathInAllowedDirsSys(abs))
    ELSE validateResolved(f, dirs, abs, EvalSymlinks(f, abs),
                          isPathInAllowedDirsSys(abs) \cup {Sys("evalsymlinks", abs)})

validatePath(f, dirs, requestedPath) == validateAbs(f, dirs, Abs(requestedPath))

(***************************************************************************)
(* What a handler returns, with the log of the system calls it made.       *)
(***************************************************************************)
NoRes ==
    [op |-> "none", path |-> <<>>, isError |-> FALSE, msg |-> "", valid |-> <<>>,
     sys |-> {}, text |-> <<>>, shape |-> "", nodes |-> {}, follow |-> FALSE,
     depth |-> 0, backup |-> <<>>, backupCreated |-> FALSE, confidence |-> "",
     count |-> 0, lines |-> 0, old |-> <<>>, new |-> <<>>, uri |-> <<>>, mime |-> "",
     blob |-> <<>>, items |-> <<>>, errors |-> <<>>, failed |-> 0, ops |-> <<>>,
     paths |-> <<>>, dest |-> <<>>, diff |-> <<>>]

Request(op, path) == [NoRes EXCEPT !.op = op, !.path = path]

\* The "." and "./" shortcut of the handlers.
Shortcut(path) == IF path = <<".">> \/ path = <<".", "/">> THEN Cwd ELSE path

Out(f, r) == [fs |-> f, res |-> r]

Failed(r, msg, sys) == [r EXCEPT !.isError = TRUE, !.msg = msg, !.sys = sys]

Validated(r, v) == [r EXCEPT !.valid = v.path, !.sys = v.sys]

(***************************************************************************)
(* handleReadFile (the files of the model are text files below             *)
(* MAX_INLINE_SIZE).                                                       *)
(***************************************************************************)
MAX_INLINE_SIZE == 5 * 1024 * 1024
MAX_BASE64_SIZE == 1 * 1024 * 1024

\* isTextFile and isImageFile, on the MIME types of the model's files.
isTextFile(mimeType) == mimeType \in {"text/plain", "application/json"}
isImageFile(mimeType) == mimeType \in {"image/png"}

\* info.Size() and detectMimeType(path) of an existing path.
SizeOf(f, p) == NodeAt(f, Resolve(f, p).path).size
detectMimeType(f, p) == NodeAt(f, Resolve(f, p).path).mime

\* pathToResourceURI
pathToResourceURI(path) == <<"file://">> \o path

\* base64.StdEncoding.EncodeToString: the encoded text is kept as the bytes it
\* encodes behind the mark of the encoding.
Base64(d) == <<"base64:">> \o d

\* A text item with a description and an embedded text resource that names the
\* URI: no byte of the file.
Reference(r) ==
    [r EXCEPT !.shape = "reference", !.uri = pathToResourceURI(r.valid), !.mime = "text/plain"]

\* handleReadFile from the result of os.ReadFile on.
readContent(f, r, rd, mimeType, size) ==
    IF rd.err # "" THEN Out(f, Failed(r, "Error reading file", r.sys))
    ELSE IF isTextFile(mimeType) THEN Out(f, [r EXCEPT !.shape = "text", !.text = rd.data])
    ELSE IF isImageFile(mimeType) /\ size <= MAX_BASE64_SIZE
    THEN Out(f, [r EXCEPT !.shape = "image", !.blob = Base64(rd.data), !.mime = mimeType])
    ELSE Out(f, Reference(r))

\* A read that inlines whatever the size.
readSizedUnbounded(f, r, size, rfault) ==
    readContent(f, [r EXCEPT !.sys = @ \cup {Sys("read", r.valid)}],
                osReadFile(f, r.valid, rfault), detectMimeType(f, r.valid), size)

readSized(f, r, size, rfault) ==
    IF size > MAX_INLINE_SIZE THEN Out(f, Reference(r))
    ELSE readContent(f, [r EXCEPT !.sys = @ \cup {Sys("read", r.valid)}],
                     osReadFile(f, r.valid, rfault), detectMimeType(f, r.valid), size)

readStat(f, r, info, rfault) ==
    IF info.err # "" THEN Out(f, Failed(r, info.err, r.sys))
    ELSE IF info.isDir
    THEN Out(f, [r EXCEPT !.shape = "directory", !.uri = pathToResourceURI(r.valid),
                          !.mime = "text/plain"])
    ELSE readSized(f, r, SizeOf(f, r.valid), rfault)

readValidated(f, r, v, rfault) ==
    IF v.err # "" THEN Out(f, Failed(r, v.err, v.sys))
    ELSE readStat(f, [r EXCEPT !.valid = v.path, !.sys = v.sys \cup {Sys("stat", v.path)}],
                  Stat(f, v.path), rfault)

handleReadFile(f, dirs, reqPath, rfault) ==
    readValidated(f, Request("read_file", reqPath),
                  validatePath(f, dirs, Shortcut(reqPath)), rfault)

(***************************************************************************)
(* handleWriteFile                                                         *)
(***************************************************************************)
writeDone(r, wr, content) ==
    IF wr.err # "" THEN Out(wr.fs, Failed(r, "Error writing file", r.sys))
    ELSE Out(wr.fs, [r EXCEPT !.shape = "written", !.text = content])

writeMade(r, mk, content, wfault) ==
    IF mk.err # "" THEN Out(mk.fs, Failed(r, "Error creating parent directories", r.sys))
    ELSE writeDone([r EXCEPT !.sys = @ \cup {Sys("write", r.valid)}],
                   osWriteFile(mk.fs, r.valid, content, wfault), content)

writeStat(f, r, info, content, wfault) ==
    IF info.err = "" /\ info.isDir THEN Out(f, Failed(r, "Cannot write to a directory", r.sys))
    ELSE writeMade([r EXCEPT !.sys = @ \cup {Sys("mkdirall", Dir(r.valid))}],
                   osMkdirAll(f, Dir(r.valid)), content, wfault)

writeValidated(f, r, v, content, wfault) ==
    IF v.err # "" THEN Out(f, Failed(r, v.err, v.sys))
    ELSE writeStat(f, [r EXCEPT !.valid = v.path, !.sys = v.sys \cup {Sys("stat", v.path)}],
                   Stat(f, v.path), content, wfault)

handleWriteFile(f, dirs, reqPath, content, wfault) ==
    writeValidated(f, Request("write_file", reqPath),
                   validatePath(f, dirs, Shortcut(reqPath)), content, wfault)

(***************************************************************************)
(* The editor: handler_utils.go.                                           *)
(***************************************************************************)
\* The white space of the model's texts: what strings.TrimSpace trims and \s matches.
Spaces == {" ", "\t", "\n", "\r"}

RECURSIVE TrimLeftSet(_, _)
\* strings.TrimLeft(s, cutset)
TrimLeftSet(s, cutset) ==
    IF s # <<>> /\ Head(s) \in cutset THEN TrimLeftSet(Tail(s), cutset) ELSE s

RECURSIVE TrimRightSet(_, _)
TrimRightSet(s, cutset) ==
    IF s # <<>> /\ s[Len(s)] \in cutset
    THEN TrimRightSet(SubSeq(s, 1, Len(s) - 1), cutset) ELSE s

\* strings.TrimSpace
TrimSpace(s) == TrimRightSet(TrimLeftSet(s, Spaces), Spaces)

normalizeLineEndings(s) == ReplaceAll(ReplaceAll(s, <<"\r", "\n">>, <<"\n">>), <<"\r">>, <<"\n">>)

RECURSIVE normalizeWhitespace(_)
\* regexp `\s+` replaced by one space.
normalizeWhitespace(s) ==
    IF s = <<>> THEN <<>>
    ELSE IF Head(s) \in Spaces THEN <<" ">> \o normalizeWhitespace(TrimLeftSet(s, Spaces))
    ELSE <<Head(s)>> \o normalizeWhitespace(Tail(s))

getIndentation(line) == SubSeq(line, 1, Len(line) - Len(TrimLeftSet(line, {" ", "\t"})))

reconstructLine(original, oldText, newText, normalizedPos) ==
    ReplaceFirst(original, TrimSpace(oldText), TrimSpace(newText))

findMultilineMatch(content, pattern) == Contains(pattern, <<"\n">>) /\ Contains(content, pattern)

\* The characters regexp.QuoteMeta escapes.
RegexMeta == {"\\", ".", "+", "*", "?", "(", ")", "|", "[", "]", "{", "}", "^", "$"}

RECURSIVE QuoteMeta(_)
QuoteMeta(s) ==
    IF s = <<>> THEN <<>>
    ELSE (IF Head(s) \in RegexMeta THEN <<"\\", Head(s)>> ELSE <<Head(s)>>)
         \o QuoteMeta(Tail(s))

\* makeFlexiblePattern: the two-character sequences backslash-space and
\* backslash-n of the escaped text are widened.
makeFlexiblePattern(escaped) ==
    ReplaceAll(ReplaceAll(escaped, <<"\\", " ">>, <<"\\", "s", "+">>),
               <<"\\", "n">>, <<"\\", "s", "*", "\\", "n", "\\", "s", "*">>)

\* len(re.FindAllString(content, -1)) for a pattern that holds no backslash: the
\* pattern is a literal, and the matches are its non-overlapping occurrences.
\* The texts of the model hold no regexp metacharacter, so every pattern is of
\* this kind.
FindAllCount(content, pattern) == IF pattern = <<>> THEN 0 ELSE Count(content, pattern)

\* countAffectedLines when every match is the same string: each is looked up by
\* strings.Index, which finds the first occurrence, so the lines counted are
\* those of the first occurrence.
countAffectedLines(content, match) ==
    IF Index(content, match) = 0 THEN 0 ELSE Count(match, <<"\n">>) + 1

\* The number of lines that contain oldText.
LinesContaining(lines, oldText) == Cardinality({i \in 1..Len(lines) : Contains(lines[i], oldText)})

Edited(line, n) == [line |-> line, n |-> n]

\* One pass of the per-line loop of performIntelligentEdit, for a line that is
\* not the trimmed old text: the new line and the replacements counted for it
\* (0: the line is kept).
EditLineWithin(line, oldText, newText, normalizedOld) ==
    IF Contains(line, oldText)
    THEN Edited(ReplaceAll(line, oldText, newText), Count(line, oldText))
    ELSE IF Contains(line, normalizedOld)
    THEN Edited(ReplaceAll(line, normalizedOld, newText), Count(line, normalizedOld))
    ELSE IF Contains(normalizeWhitespace(line), normalizeWhitespace(oldText))
    THEN Edited(reconstructLine(line, oldText, newText, 0), 1)
    ELSE Edited(line, 0)

EditLine(line, oldText, newText, normalizedOld) ==
    IF TrimSpace(line) = normalizedOld
    THEN Edited(getIndentation(line) \o TrimSpace(newText), 1)
    ELSE EditLineWithin(line, oldText, newText, normalizedOld)

RECURSIVE SumN(_)
SumN(es) == IF es = <<>> THEN 0 ELSE Head(es).n + SumN(Tail(es))

EditResult(content, count, confidence, lines) ==
    [err |-> "", ModifiedContent |-> content, ReplacementCount |-> count,
     MatchConfidence |-> confidence, LinesAffected |-> lines, quoted |-> <<>>]

\* An error of performIntelligentEdit; quoted is the text its message quotes
\* with %q.
EditError(r, err, quoted) == [r EXCEPT !.err = err, !.quoted = quoted]

ErrEmptyOld == "old_text cannot be empty"
ErrNoMatch == "no matches found for text"

\* A fallback that appends the new text when nothing matched.
editFallbackAppending(content, oldText, newText, matches) ==
    EditResult(content \o newText, 1, "low", 1)

\* performIntelligentEdit after the per-line loop found nothing: the multi-line
\* match, then the flexible pattern, then no match.
editFallback(content, oldText, newText, matches) ==
    IF findMultilineMatch(content, oldText)
    THEN EditResult(ReplaceAll(content, oldText, newText), 1, "medium",
                    Count(oldText, <<"\n">>) + 1)
    ELSE IF matches > 0
    THEN EditResult(ReplaceAll(content, oldText, newText), matches, "low",
                    countAffectedLines(content, oldText))
    ELSE EditError(EditResult(content, 0, "none", 0), ErrNoMatch, oldText)

\* performIntelligentEdit after the per-line loop; edits holds, line by line,
\* the new line and its replacements.
editLines(content, oldText, newText, edits, replacements) ==
    IF replacements = 0
    THEN editFallback(content, oldText, newText,
                      FindAllCount(content, makeFlexiblePattern(QuoteMeta(oldText))))
    ELSE EditResult(Join([i \in 1..Len(edits) |-> edits[i].line], <<"\n">>), replacements,
                    "medium", Cardinality({i \in 1..Len(edits) : edits[i].n > 0}))

editPerLine(content, oldText, newText, edits) ==
    editLines(content, oldText, newText, edits, SumN(edits))

LineEdits(lines, oldText, newText, normalizedOld) ==
    [i \in 1..Len(lines) |-> EditLine(lines[i], oldText, newText, normalizedOld)]

\* performIntelligentEdit on the texts with their line endings normalized.
editNormalized(content, oldText, newText, exactMatches) ==
    IF exactMatches > 0
    THEN EditResult(ReplaceAll(content, oldText, newText), exactMatches, "high",
                    LinesContaining(Split(content, "\n"), oldText))
    ELSE editPerLine(content, oldText, newText,
                     LineEdits(Split(content, "\n"), oldText, newText, TrimSpace(oldText)))

editCounted(content, oldText, newText) ==
    editNormalized(content, oldText, newText, Count(content, oldText))

performIntelligentEdit(content, oldText, newText) ==
    IF oldText = <<>> THEN EditError(EditResult(<<>>, 0, "", 0), ErrEmptyOld, <<>>)
    ELSE editCounted(normalizeLineEndings(content), normalizeLineEndings(oldText),
                     normalizeLineEndings(newText))

(***************************************************************************)
(* handleEditFile: handler.go.                                             *)
(***************************************************************************)
validateEditableOf(info) ==
    IF info.err # "" THEN info.err ELSE IF info.isDir THEN "cannot edit directory" ELSE ""

\* validateEditableFile
validateEditableFile(f, path) == validateEditableOf(Stat(f, path))

BackupSuffix == <<".", "b", "a", "c", "k", "u", "p">>

Backup(err, backupPath, f, created) ==
    [err |-> err, backupPath |-> backupPath, fs |-> f, created |-> created]

backupWritten(backupPath, wr) == Backup(wr.err, backupPath, wr.fs, wr.real # <<>>)

backupRead(f, backupPath, rd, wfault) ==
    IF rd.err # "" THEN Backup(rd.err, <<>>, f, FALSE)
    ELSE backupWritten(backupPath, osWriteFile(f, backupPath, rd.data, wfault))

\* createBackup: ("", err) when the file cannot be read, otherwise the backup
\* path with the error of os.WriteFile.
createBackup(f, path, rfault, wfault) ==
    backupRead(f, path \o BackupSuffix, osReadFile(f, path, rfault), wfault)

\* The deferred function of handleEditFile.
DeferredRemove(f, backupPath) == IF backupPath # <<>> THEN osRemove(f, backupPath) ELSE f

Removing(r) == [r EXCEPT !.sys = @ \cup {Sys("remove", r.backup)}]

\* handleEditFile from os.WriteFile(validPath, result.ModifiedContent) on.
editWritten(r, wr, result) ==
    IF wr.err # ""
    THEN Out(DeferredRemove(wr.fs, r.backup), Failed(Removing(r), "error writing file", Removing(r).sys))
    ELSE Out(osRemove(wr.fs, r.backup),
             [Removing(r) EXCEPT !.shape = "edited", !.text = result.ModifiedContent,
                                 !.confidence = result.MatchConfidence,
                                 !.count = result.ReplacementCount,
                                 !.lines = result.LinesAffected])

\* A handler that writes the editor's content whatever the editor returned.
editComputedRegardless(f, r, result, wfault) ==
    editWritten([r EXCEPT !.sys = @ \cup {Sys("write", r.valid)}],
                osWriteFile(f, r.valid, result.ModifiedContent, wfault), result)

\* handleEditFile from the result of performIntelligentEdit on.
editComputed(f, r, result, wfault) ==
    IF result.err # ""
    THEN Out(DeferredRemove(f, r.backup),
             [Failed(Removing(r), result.err, Removing(r).sys) EXCEPT
                  !.confidence = result.MatchConfidence, !.text = result.quoted])
    ELSE editWritten([r EXCEPT !.sys = @ \cup {Sys("write", r.valid)}],
                     osWriteFile(f, r.valid, result.ModifiedContent, wfault), result)

\* handleEditFile from os.ReadFile(validPath) on; the deferred removal of the
\* backup runs on every return from here.
editRead(f, r, rd, wfault) ==
    IF rd.err # ""
    THEN Out(DeferredRemove(f, r.backup), Failed(Removing(r), "error reading file", Removing(r).sys))
    ELSE editComputed(f, r, performIntelligentEdit(rd.data, r.old, r.new), wfault)

\* handleEditFile from the result of createBackup on.
editBackedUp(r, bk, plan) ==
    IF bk.err # "" THEN Out(bk.fs, Failed(r, "could not create backup", r.sys))
    ELSE editRead(bk.fs, [r EXCEPT !.sys = @ \cup {Sys("read", r.valid)}],
                  osReadFile(bk.fs, r.valid, plan.read), plan.write)

BackupLog(r, bk) ==
    [r EXCEPT !.backup = bk.backupPath, !.backupCreated = bk.created,
              !.sys = @ \cup {Sys("read", r.valid)}
                        \cup (IF bk.backupPath # <<>> THEN {Sys("write", bk.backupPath)}
                              ELSE {})]

editBackup(r, bk, plan) == editBackedUp(BackupLog(r, bk), bk, plan)

editEditable(f, r, editable, plan) ==
    IF editable # "" THEN Out(f, Failed(r, editable, r.sys))
    ELSE editBackup(r, createBackup(f, r.valid, plan.bread, plan.bwrite), plan)

editValidated(f, r, v, plan) ==
    IF v.err # "" THEN Out(f, Failed(r, v.err, v.sys))
    ELSE editEditable(f, [r EXCEPT !.valid = v.path, !.sys = v.sys \cup {Sys("stat", v.path)}],
                      validateEditableFile(f, v.path), plan)

handleEditFile(f, dirs, reqPath, oldText, newText, plan) ==
    editValidated(f, [Request("edit_file", reqPath) EXCEPT !.old = oldText, !.new = newText],
                  validatePath(f, dirs, reqPath), plan)

(***************************************************************************)
(* handleWriteFileSafe: handler_chunked.go.                                *)
(***************************************************************************)
TmpSuffix == <<".", "t", "m", "p">>

\* handleWriteFileSafe from os.Rename(tempPath, validPath) on.
safeRenamed(r, rn, tempPath, content) ==
    IF rn.err # ""
    THEN Out(osRemove(rn.fs, tempPath),
             Failed(r, "Error finalizing file", r.sys \cup {Sys("remove", tempPath)}))
    ELSE Out(rn.fs, [r EXCEPT !.shape = "written", !.text = content])

\* handleWriteFileSafe from os.WriteFile(tempPath, content) on.
safeTempWritten(r, wr, tempPath, content, plan) ==
    IF wr.err # "" THEN Out(wr.fs, Failed(r, "Error writing temp file", r.sys))
    ELSE safeRenamed([r EXCEPT !.sys = @ \cup {Sys("rename", tempPath), Sys("rename", r.valid)}],
                     osRename(wr.fs, tempPath, r.valid, plan.rename), tempPath, content)

\* A safe write that writes the file in place instead of a temporary file.
safeMadeInPlace(r, mk, content, plan) ==
    IF mk.err # "" THEN Out(mk.fs, Failed(r, "Error creating directory", r.sys))
    ELSE safeTempWritten([r EXCEPT !.sys = @ \cup {Sys("write", r.valid)}],
                         osWriteFile(mk.fs, r.valid, content, plan.write),
                         r.valid, content, plan)

\* handleWriteFileSafe from os.MkdirAll(parentDir) on.
safeMade(r, mk, content, plan) ==
    IF mk.err # "" THEN Out(mk.fs, Failed(r, "Error creating directory", r.sys))
    ELSE safeTempWritten([r EXCEPT !.sys = @ \cup {Sys("write", r.valid \o TmpSuffix)}],
                         osWriteFile(mk.fs, r.valid \o TmpSuffix, content, plan.write),
                         r.valid \o TmpSuffix, content, plan)

safeMkdir(f, r, content, plan) ==
    safeMade([r EXCEPT !.sys = @ \cup {Sys("mkdirall", Dir(r.valid))}],
             IF plan.mkdir # "none" THEN [err |-> "EACCES", fs |-> f]
             ELSE osMkdirAll(f, Dir(r.valid)),
             content, plan)

\* handleWriteFileSafe from the optional backup on: the backup is made when it
\* is asked for and the file exists.
safeBackup(f, r, backing, bk, content, plan) ==
    IF ~backing THEN safeMkdir(f, r, content, plan)
    ELSE IF bk.err # ""
    THEN Out(bk.fs, Failed(BackupLog(r, bk), "Error creating backup", BackupLog(r, bk).sys))
    ELSE safeMkdir(bk.fs, BackupLog(r, bk), content, plan)

safeValidated(f, r, v, withBackup, content, plan) ==
    IF v.err # "" THEN Out(f, Failed(r, v.err, v.sys))
    ELSE safeBackup(f, [r EXCEPT !.valid = v.path, !.sys = v.sys],
                    withBackup /\ Stat(f, v.path).err = "",
                    createBackup(f, v.path, plan.bread, plan.bwrite), content, plan)

handleWriteFileSafe(f, dirs, reqPath, content, withBackup, plan) ==
    IF reqPath = <<>> \/ content = <<>>
    THEN Out(f, Failed(Request("write_file_safe", reqPath), "path and content are required", {}))
    ELSE safeValidated(f, Request("write_file_safe", reqPath), validatePath(f, dirs, reqPath),
                       withBackup, content, plan)

(***************************************************************************)
(* The directory walker.                                                   *)
(***************************************************************************)
\* os.ReadDir(dir): the entries of a real directory.
ReadDir(f, dir) == {q \in DOMAIN f : q # dir /\ Dir(q) = dir}

Node(path, type, depth) == [path |-> path, type |-> type, depth |-> depth]
Subtree(err, nodes) == [err |-> err, nodes |-> nodes]

\* The part of buildTree's loop that decides what to descend into for a
\* symbolic link entry: nothing (<<>>) unless followSymlinks, the link resolves
\* and its destination is in an allowed directory.
LinkEntry(f, dirs, linkDest, followSymlinks) ==
    IF ~followSymlinks \/ linkDest.err # "" THEN <<>>
    ELSE IF ~isPathInAllowedDirs(f, dirs, linkDest.path) THEN <<>>
    ELSE linkDest.path

\* The path buildTree descends into for the entry q of directory validPath.
EntryPath(f, dirs, validPath, q, followSymlinks) ==
    IF f[q].kind = "link"
    THEN LinkEntry(f, dirs, EvalSymlinks(f, JoinPath(validPath, Base(q))), followSymlinks)
    ELSE JoinPath(validPath, Base(q))

RECURSIVE buildTree(_, _, _, _, _, _)
\* The child of an entry; an entry that is skipped or whose subtree fails adds nothing.
Child(f, dirs, entryPath, maxDepth, depth, followSymlinks) ==
    IF entryPath = <<>> THEN {}
    ELSE buildTree(f, dirs, entryPath, maxDepth, depth, followSymlinks).nodes

treeStat(f, dirs, validPath, info, maxDepth, currentDepth, followSymlinks) ==
    IF info.err # "" THEN Subtree(info.err, {})
    ELSE IF ~info.isDir THEN Subtree("", {Node(validPath, "file", currentDepth)})
    ELSE IF currentDepth >= maxDepth THEN Subtree("", {Node(validPath, "directory", currentDepth)})
    ELSE Subtree("", {Node(validPath, "directory", currentDepth)} \cup
                  UNION {Child(f, dirs, EntryPath(f, dirs, validPath, q, followSymlinks),
                               maxDepth, currentDepth + 1, followSymlinks) :
                            q \in ReadDir(f, validPath)})

treeValidated(f, dirs, v, maxDepth, currentDepth, followSymlinks) ==
    IF v.err # "" THEN Subtree(v.err, {})
    ELSE treeStat(f, dirs, v.path, Stat(f, v.path), maxDepth, currentDepth, followSymlinks)

\* buildTree: the nodes of the tree (path, type and depth of each), or an error.
buildTree(f, dirs, path, maxDepth, currentDepth, followSymlinks) ==
    treeValidated(f, dirs, validatePath(f, dirs, path), maxDepth, currentDepth,
                  followSymlinks)

treeBuilt(f, r, tree) ==
    IF tree.err # "" THEN Out(f, Failed(r, "Error building directory tree", r.sys))
    ELSE Out(f, [r EXCEPT !.shape = "tree", !.nodes = tree.nodes,
                          !.sys = @ \cup {Sys("readdir", r.valid)}])

handleTreeStat(f, dirs, r, info) ==
    IF info.err # "" THEN Out(f, Failed(r, info.err, r.sys))
    ELSE IF ~info.isDir THEN Out(f, Failed(r, "The specified path is not a directory", r.sys))
    ELSE treeBuilt(f, r, buildTree(f, dirs, r.valid, r.depth, 0, r.follow))

handleTreeValidated(f, dirs, r, v) ==
    IF v.err # "" THEN Out(f, Failed(r, v.err, v.sys))
    ELSE handleTreeStat(f, dirs,
                        [r EXCEPT !.valid = v.path, !.sys = v.sys \cup {Sys("stat", v.path)}],
                        Stat(f, v.path))

handleTree(f, dirs, reqPath, depth, followSymlinks) ==
    handleTreeValidated(f, dirs,
                        [Request("tree", reqPath) EXCEPT !.depth = depth,
                                                         !.follow = followSymlinks],
                        validatePath(f, dirs, Shortcut(reqPath)))

(***************************************************************************)
(* handleBatchEdit (the batch_operations tool) and the operations of a      *)
(* batch.  An operation is the map of the request: has names the string     *)
(* fields it carries, map tells whether the array element is a map at all.  *)
(***************************************************************************)
maxOperations == 50

Lower == [t \in {"MKDIR", "Write", "DELETE"} |->
             CASE t = "MKDIR" -> "mkdir" [] t = "Write" -> "write" [] t = "DELETE" -> "delete"]

\* strings.ToLower on the operation types of the model.
ToLower(t) == IF t \in DOMAIN Lower THEN Lower[t] ELSE t

BatchDone(f, text) == [err |-> "", text |-> text, fs |-> f]
BatchError(f, err) == [err |-> err, text |-> "", fs |-> f]

copyCreated(cr, src) ==
    IF cr.err # "" THEN [err |-> cr.err, fs |-> cr.fs]
    ELSE IF Stat(cr.fs, src).isDir THEN [err |-> "EISDIR", fs |-> cr.fs]
    ELSE [err |-> "", fs |-> [cr.fs EXCEPT ![cr.real] = NodeAt(cr.fs, Resolve(cr.fs, src).path)]]

\* copyFile(src, dst): os.Open(src), os.Create(dst), io.Copy; the destination
\* is created or emptied before the first byte is read.
copyFile(f, src, dst) ==
    IF Stat(f, src).err # "" THEN [err |-> Stat(f, src).err, fs |-> f]
    ELSE copyCreated(osWriteFile(f, dst, <<>>, "none"), src)

moveRenamed(rn) ==
    IF rn.err # "" THEN BatchError(rn.fs, "move failed") ELSE BatchDone(rn.fs, "Moved")

moveMade(mk, validFrom, validTo) ==
    IF mk.err # "" THEN BatchError(mk.fs, "failed to create parent directory")
    ELSE moveRenamed(osRename(mk.fs, validFrom, validTo, "none"))

moveTo(f, validFrom, vTo) ==
    IF vTo.err # "" THEN BatchError(f, "invalid destination path")
    ELSE moveMade(osMkdirAll(f, Dir(vTo.path)), validFrom, vTo.path)

moveFrom(f, dirs, op, vFrom) ==
    IF vFrom.err # "" THEN BatchError(f, "invalid source path")
    ELSE moveTo(f, vFrom.path, validatePath(f, dirs, op.to))

processBatchMove(f, dirs, op) ==
    IF "from" \notin op.has THEN BatchError(f, "missing 'from' field")
    ELSE IF "to" \notin op.has THEN BatchError(f, "missing 'to' field")
    ELSE moveFrom(f, dirs, op, validatePath(f, dirs, op.from))

copyCopied(cp) ==
    IF cp.err # "" THEN BatchError(cp.fs, "copy failed") ELSE BatchDone(cp.fs, "Copied")

copyMade(mk, validFrom, validTo) ==
    IF mk.err # "" THEN BatchError(mk.fs, "failed to create parent directory")
    ELSE copyCopied(copyFile(mk.fs, validFrom, validTo))

copyTo(f, validFrom, vTo) ==
    IF vTo.err # "" THEN BatchError(f, "invalid destination path")
    ELSE copyMade(osMkdirAll(f, Dir(vTo.path)), validFrom, vTo.path)

copyFrom(f, dirs, op, vFrom) ==
    IF vFrom.err # "" THEN BatchError(f, "invalid source path")
    ELSE copyTo(f, vFrom.path, validatePath(f, dirs, op.to))

processBatchCopy(f, dirs, op) ==
    IF "from" \notin op.has THEN BatchError(f, "missing 'from' field")
    ELSE IF "to" \notin op.has THEN BatchError(f, "missing 'to' field")
    ELSE copyFrom(f, dirs, op, validatePath(f, dirs, op.from))

deleteRemovedAll(rm) ==
    IF rm.err # "" THEN BatchError(rm.fs, "delete directory failed")
    ELSE BatchDone(rm.fs, "Deleted directory")

deleteStat(f, op, validPath, info) ==
    IF IsNotExist(info.err) THEN BatchDone(f, "Already deleted")
    ELSE IF info.err # "" THEN BatchError(f, "stat failed")
    ELSE IF info.isDir
    THEN IF ~op.recursive THEN BatchError(f, "directory deletion requires recursive=true")
         ELSE deleteRemovedAll(osRemoveAll(f, validPath))
    ELSE BatchDone(osRemove(f, validPath), "Deleted file")

deleteValidated(f, op, v) ==
    IF v.err # "" THEN BatchError(f, "invalid path")
    ELSE deleteStat(f, op, v.path, Stat(f, v.path))

processBatchDelete(f, dirs, op) ==
    IF "path" \notin op.has THEN BatchError(f, "missing 'path' field")
    ELSE deleteValidated(f, op, validatePath(f, dirs, op.path))

createDirMade(mk) ==
    IF mk.err # "" THEN BatchError(mk.fs, "create directory failed")
    ELSE BatchDone(mk.fs, "Created directory")

createDirValidated(f, v) ==
    IF v.err # "" THEN BatchError(f, "invalid path") ELSE createDirMade(osMkdirAll(f, v.path))

processBatchCreateDir(f, dirs, op) ==
    IF "path" \notin op.has THEN BatchError(f, "missing 'path' field")
    ELSE createDirValidated(f, validatePath(f, dirs, op.path))

batchWritten(wr) ==
    IF wr.err # "" THEN BatchError(wr.fs, "write failed") ELSE BatchDone(wr.fs, "Written")

batchWriteMade(mk, validPath, content) ==
    IF mk.err # "" THEN BatchError(mk.fs, "failed to create parent directory")
    ELSE batchWritten(osWriteFile(mk.fs, validPath, content, "none"))

batchWriteValidated(f, op, v) ==
    IF v.err # "" THEN BatchError(f, "invalid path")
    ELSE batchWriteMade(osMkdirAll(f, Dir(v.path)), v.path, op.content)

processBatchWrite(f, dirs, op) ==
    IF "path" \notin op.has THEN BatchError(f, "missing 'path' field")
    ELSE IF "content" \notin op.has THEN BatchError(f, "missing 'content' field")
    ELSE batchWriteValidated(f, op, validatePath(f, dirs, op.path))

batchByType(f, dirs, op, opType) ==
    IF opType \in {"rename", "move"} THEN processBatchMove(f, dirs, op)
    ELSE IF opType = "copy" THEN processBatchCopy(f, dirs, op)
    ELSE IF opType = "delete" THEN processBatchDelete(f, dirs, op)
    ELSE IF opType \in {"create_dir", "mkdir"} THEN processBatchCreateDir(f, dirs, op)
    ELSE IF opType = "write" THEN processBatchWrite(f, dirs, op)
    ELSE BatchError(f, "unsupported operation type")

processBatchOperation(f, dirs, op) ==
    IF "type" \notin op.has THEN BatchError(f, "missing or invalid 'type' field")
    ELSE batchByType(f, dirs, op, ToLower(op.type))

Report(opNum, text) == [num |-> opNum, text |-> text]

RECURSIVE batchLoop(_, _, _, _, _, _)
\* A loop that ends at the first operation that fails.
batchStepStopping(f, dirs, ops, i, results, errors, out) ==
    IF out.err # ""
    THEN [fs |-> out.fs, results |-> results, errors |-> Append(errors, Report(i, out.err))]
    ELSE batchLoop(out.fs, dirs, ops, i + 1, Append(results, Report(i, out.text)), errors)

\* A loop whose operations all act on the filesystem as the batch found it.
batchStepApart(f, dirs, ops, i, results, errors, out) ==
    IF out.err # ""
    THEN batchLoop(f, dirs, ops, i + 1, results, Append(errors, Report(i, out.err)))
    ELSE batchLoop(f, dirs, ops, i + 1, Append(results, Report(i, out.text)), errors)

\* The body of the loop once operation i has returned.
batchStep(f, dirs, ops, i, results, errors, out) ==
    IF out.err # ""
    THEN batchLoop(out.fs, dirs, ops, i + 1, results, Append(errors, Report(i, out.err)))
    ELSE batchLoop(out.fs, dirs, ops, i + 1, Append(results, Report(i, out.text)), errors)

\* for i, op := range operationsParam
batchLoop(f, dirs, ops, i, results, errors) ==
    IF i > Len(ops) THEN [fs |-> f, results |-> results, errors |-> errors]
    ELSE IF ~ops[i].map
    THEN batchLoop(f, dirs, ops, i + 1, results, Append(errors, Report(i, "invalid format")))
    ELSE batchStep(f, dirs, ops, i, results, errors, processBatchOperation(f, dirs, ops[i]))

batchCompleted(r, done) ==
    Out(done.fs, [r EXCEPT !.shape = "batch", !.items = done.results, !.errors = done.errors,
                           !.count = Len(done.results), !.failed = Len(done.errors)])

handleBatchEdit(f, dirs, isArray, operationsParam) ==
    IF ~isArray
    THEN Out(f, Failed(Request("batch_operations", <<>>), "operations must be an array", {}))
    ELSE IF Len(operationsParam) = 0
    THEN Out(f, Failed(Request("batch_operations", <<>>), "no operations specified", {}))
    ELSE IF Len(operationsParam) > maxOperations
    THEN Out(f, Failed(Request("batch_operations", <<>>), "too many operations", {}))
    ELSE batchCompleted([Request("batch_operations", <<>>) EXCEPT !.ops = operationsParam],
                        batchLoop(f, dirs, operationsParam, 1, <<>>, <<>>))

(***************************************************************************)
(* handleReadMultipleFiles.  An element of the paths array is a string      *)
(* (str) or something else; the result is the list of content items, each   *)
(* of them a text.                                                          *)
(***************************************************************************)
maxFiles == 50

Item(kind, path, text, uri) == [kind |-> kind, path |-> path, text |-> text, uri |-> uri]

manyRead(path, validPath, rd, mimeType) ==
    IF rd.err # "" THEN <<Item("Error reading file", path, <<>>, <<>>)>>
    ELSE IF isTextFile(mimeType)
    THEN <<Item("File", path, <<>>, <<>>), Item("content", <<>>, rd.data, <<>>)>>
    ELSE <<Item("File", path, <<>>, <<>>),
           Item("Binary file", path, <<>>, pathToResourceURI(validPath))>>

manyStat(f, path, validPath, info, rfault) ==
    IF info.err # "" THEN <<Item("Error accessing", path, <<>>, <<>>)>>
    ELSE IF info.isDir
    THEN <<Item("is a directory", path, <<>>, pathToResourceURI(validPath))>>
    ELSE IF SizeOf(f, validPath) > MAX_INLINE_SIZE
    THEN <<Item("too large", path, <<>>, pathToResourceURI(validPath))>>
    ELSE manyRead(path, validPath, osReadFile(f, validPath, rfault), detectMimeType(f, validPath))

manyValidated(f, path, v, rfault) ==
    IF v.err # "" THEN <<Item("Error with path", path, <<>>, <<>>)>>
    ELSE manyStat(f, path, v.path, Stat(f, v.path), rfault)

\* One iteration of the loop on a string: the items it appends.
manyPath(f, dirs, path, rfault) ==
    manyValidated(f, path, validatePath(f, dirs, path), rfault)

RECURSIVE manyLoop(_, _, _, _, _, _)
\* A loop that returns what it has at the first path it cannot read.
manyAppendUntilFailure(f, dirs, paths, i, failAt, results, items) ==
    IF items[1].kind # "File" THEN [err |-> "", results |-> results \o items]
    ELSE manyLoop(f, dirs, paths, i + 1, failAt, results \o items)

manyAppend(f, dirs, paths, i, failAt, results, items) ==
    manyLoop(f, dirs, paths, i + 1, failAt, results \o items)

\* for _, pathInterface := range pathsSlice; os.ReadFile fails on the path
\* numbered failAt.
manyLoop(f, dirs, paths, i, failAt, results) ==
    IF i > Len(paths) THEN [err |-> "", results |-> results]
    ELSE IF ~paths[i].str THEN [err |-> "each path must be a string", results |-> <<>>]
    ELSE manyAppend(f, dirs, paths, i, failAt, results,
                    manyPath(f, dirs, Shortcut(paths[i].path),
                             IF failAt = i THEN "fail" ELSE "none"))

\* A handler that returns a Go error gives the caller no result.
manyReturned(f, r, done) ==
    IF done.err # "" THEN Out(f, [Failed(r, done.err, {}) EXCEPT !.shape = "error"])
    ELSE Out(f, [r EXCEPT !.shape = "contents", !.items = done.results])

handleReadMultipleFiles(f, dirs, isArray, pathsSlice, failAt) ==
    IF ~isArray
    THEN Out(f, [Failed(Request("read_multiple_files", <<>>),
                        "paths must be an array of strings", {}) EXCEPT !.shape = "error"])
    ELSE IF Len(pathsSlice) = 0
    THEN Out(f, Failed(Request("read_multiple_files", <<>>), "No files specified to read", {}))
    ELSE IF Len(pathsSlice) > maxFiles
    THEN Out(f, Failed(Request("read_multiple_files", <<>>), "Too many files requested", {}))
    ELSE manyReturned(f, [Request("read_multiple_files", <<>>) EXCEPT !.paths = pathsSlice],
                      manyLoop(f, dirs, pathsSlice, 1, failAt, <<>>))

(***************************************************************************)
(* handleChunkedWrite: handler_chunked.go.                                 *)
(***************************************************************************)
chunkWritten(r, wr, chunkIndex, totalChunks) ==
    IF wr.err # "" THEN Out(wr.fs, Failed(r, "Error writing chunk", r.sys))
    ELSE Out(wr.fs, [r EXCEPT !.shape = IF chunkIndex >= totalChunks - 1
                                        THEN "Completed" ELSE "In progress"])

\* A handler that creates or truncates the file for every chunk.
chunkOpenedAnew(f, r, content, chunkIndex, totalChunks, wfault) ==
    IF wfault = "open" \/ osWriteFile(f, r.valid, <<>>, "none").err # ""
    THEN Out(f, Failed(r, "Error opening file", r.sys))
    ELSE chunkWritten(r, osWriteFile(f, r.valid, content, wfault), chunkIndex, totalChunks)

\* os.Create for chunk 0 and os.OpenFile(O_WRONLY|O_APPEND) for the others, then
\* WriteString.
chunkOpened(f, r, content, chunkIndex, totalChunks, wfault) ==
    IF wfault = "open"
       \/ (chunkIndex = 0 /\ osWriteFile(f, r.valid, <<>>, "none").err # "")
       \/ (chunkIndex # 0 /\ osAppendFile(f, r.valid, <<>>, "none").err # "")
    THEN Out(f, Failed(r, "Error opening file", r.sys))
    ELSE chunkWritten(r, IF chunkIndex = 0 THEN osWriteFile(f, r.valid, content, wfault)
                         ELSE osAppendFile(f, r.valid, content, wfault),
                      chunkIndex, totalChunks)

chunkMade(r, mk, content, chunkIndex, totalChunks, wfault) ==
    IF mk.err # "" THEN Out(mk.fs, Failed(r, "Error creating directory", r.sys))
    ELSE chunkOpened(mk.fs, r, content, chunkIndex, totalChunks, wfault)

chunkValidated(f, r, v, content, chunkIndex, totalChunks, wfault) ==
    IF v.err # "" THEN Out(f, Failed(r, v.err, v.sys))
    ELSE IF chunkIndex = 0
    THEN chunkMade([r EXCEPT !.valid = v.path, !.sys = v.sys], osMkdirAll(f, Dir(v.path)),
                   content, chunkIndex, totalChunks, wfault)
    ELSE chunkOpened(f, [r EXCEPT !.valid = v.path, !.sys = v.sys], content, chunkIndex,
                     totalChunks, wfault)

handleChunkedWrite(f, dirs, reqPath, content, chunkIndex, totalChunks, wfault) ==
    IF reqPath = <<>> \/ content = <<>>
    THEN Out(f, Failed([Request("chunked_write", reqPath) EXCEPT !.count = chunkIndex],
                       "path and content are required", {}))
    ELSE chunkValidated(f, [Request("chunked_write", reqPath) EXCEPT
                               !.count = chunkIndex, !.text = content],
                        validatePath(f, dirs, reqPath), content, chunkIndex, totalChunks, wfault)

(***************************************************************************)
(* handleJoinFiles: handler_chunked.go.                                    *)
(***************************************************************************)
\* io.Copy(targetFile, sourceFile) with the target open at its end.  A source
\* that is the target itself and holds bytes is read while it grows: the copy
\* goes on until the device is full.
joinCopy(f, target, source) ==
    IF Stat(f, source).isDir THEN [err |-> "EISDIR", fs |-> f]
    ELSE IF Resolve(f, source).path = Resolve(f, target).path
            /\ osReadFile(f, source, "none").data # <<>>
    THEN [err |-> "ENOSPC",
          fs |-> osAppendFile(f, target, osReadFile(f, source, "none").data, "none").fs]
    ELSE [err |-> "",
          fs |-> osAppendFile(f, target, osReadFile(f, source, "none").data, "none").fs]

RECURSIVE joinLoop(_, _, _, _)
joinCopied(r, cp, sourceFiles, i) ==
    IF cp.err # "" THEN Out(cp.fs, Failed(r, "Error copying", r.sys))
    ELSE joinLoop(cp.fs, r, sourceFiles, i + 1)

\* for _, sourcePath := range sourceFiles
joinLoop(f, r, sourceFiles, i) ==
    IF i > Len(sourceFiles) THEN Out(f, [r EXCEPT !.shape = "joined", !.count = Len(sourceFiles)])
    ELSE IF Stat(f, sourceFiles[i]).err # "" THEN Out(f, Failed(r, "Error opening", r.sys))
    ELSE joinCopied(r, joinCopy(f, r.valid, sourceFiles[i]), sourceFiles, i)

joinCreated(r, cr, sourceFiles) ==
    IF cr.err # "" THEN Out(cr.fs, Failed(r, "Error creating target", r.sys))
    ELSE joinLoop(cr.fs, r, sourceFiles, 1)

joinMade(r, mk, sourceFiles) ==
    IF mk.err # "" THEN Out(mk.fs, Failed(r, "Error creating directory", r.sys))
    ELSE joinCreated(r, osWriteFile(mk.fs, r.valid, <<>>, "none"), sourceFiles)

RECURSIVE joinSources(_, _, _, _, _, _)
\* The conversion of source_files: an element that is not a string is passed
\* over; the first string that validatePath refuses ends the call.
joinSources(f, dirs, r, sourceFilesParam, i, sourceFiles) ==
    IF i > Len(sourceFilesParam) THEN joinMade(r, osMkdirAll(f, Dir(r.valid)), sourceFiles)
    ELSE IF ~sourceFilesParam[i].str
    THEN joinSources(f, dirs, r, sourceFilesParam, i + 1, sourceFiles)
    ELSE IF validatePath(f, dirs, sourceFilesParam[i].path).err # ""
    THEN Out(f, Failed(r, "Error with source file", r.sys))
    ELSE joinSources(f, dirs, r, sourceFilesParam, i + 1,
                     Append(sourceFiles, validatePath(f, dirs, sourceFilesParam[i].path).path))

joinValidated(f, dirs, r, v, sourceFilesParam) ==
    IF v.err # "" THEN Out(f, Failed(r, v.err, v.sys))
    ELSE joinSources(f, dirs, [r EXCEPT !.valid = v.path, !.sys = v.sys], sourceFilesParam, 1, <<>>)

handleJoinFiles(f, dirs, targetPath, sourceFilesParam) ==
    IF targetPath = <<>> \/ Len(sourceFilesParam) = 0
    THEN Out(f, Failed(Request("join_files", targetPath),
                       "target_path and source_files are required", {}))
    ELSE joinValidated(f, dirs, [Request("join_files", targetPath) EXCEPT !.paths = sourceFilesParam],
                       validatePath(f, dirs, targetPath), sourceFilesParam)

(***************************************************************************)
(* handleCopyFile: handler_utils.go.                                       *)
(***************************************************************************)
copyFileDone(r, cp) ==
    IF cp.err # "" THEN Out(cp.fs, Failed(r, "Error copying file", r.sys))
    ELSE Out(cp.fs, [r EXCEPT !.shape = "copied", !.uri = pathToResourceURI(r.dest)])

copyDestValidated(f, r, validSource, vDest) ==
    IF vDest.err # "" THEN Out(f, Failed(r, "Error with destination path", vDest.sys))
    ELSE copyFileDone([r EXCEPT !.valid = validSource, !.dest = vDest.path],
                      copyFile(f, validSource, vDest.path))

copySourceValidated(f, dirs, r, vSource, destination) ==
    IF vSource.err # "" THEN Out(f, Failed(r, "Error with source path", vSource.sys))
    ELSE copyDestValidated(f, r, vSource.path, validatePath(f, dirs, destination))

handleCopyFile(f, dirs, source, destination) ==
    copySourceValidated(f, dirs, [Request("copy_file", source) EXCEPT !.new = destination],
                        validatePath(f, dirs, source), destination)

(***************************************************************************)
(* handleWatchFile: handler.go.  The call is a process: it polls, sleeps   *)
(* one second and polls again, while the file changes under it.  The       *)
(* timeout parameter is a number of half seconds, so that int() truncates. *)
(***************************************************************************)
defaultTimeout == 30

NoWatch ==
    [pc |-> "idle", path |-> <<>>, timeoutParam |-> 0, validPath |-> <<>>, timeout |-> 0,
     initialStat |-> 0, startTime |-> 0, events |-> <<>>, returned |-> 0]

Unwatched == watch = NoWatch /\ clock = 0 /\ mtime = <<>>

FileWatchEvent(path, event, timestamp) ==
    [path |-> path, event |-> event, timestamp |-> timestamp]

\* int(timeoutParam) of a positive number of half seconds, or the default.
watchTimeout(timeoutParam) ==
    IF timeoutParam > 0 THEN timeoutParam \div 2 ELSE defaultTimeout

\* os.Stat(p): the error, or the modification time.
ModTime(mt, p) == IF p \in DOMAIN mt THEN mt[p] ELSE [err |-> "ENOENT", modTime |-> 0]

watchStatted(w, r, st, now) ==
    IF st.err # "" THEN [watch |-> NoWatch, res |-> Failed(r, "Cannot stat file", r.sys)]
    ELSE [watch |-> [w EXCEPT !.pc = "poll", !.initialStat = st.modTime, !.startTime = now],
          res |-> NoRes]

watchValidated(mt, now, w, r, v) ==
    IF v.err # "" THEN [watch |-> NoWatch, res |-> Failed(r, "Path error", v.sys)]
    ELSE watchStatted([w EXCEPT !.validPath = v.path], Validated(r, v),
                      ModTime(mt, v.path), now)

\* The call up to the loop.
watchStarted(f, dirs, mt, now, path, timeoutParam) ==
    IF path = <<>>
    THEN [watch |-> NoWatch, res |-> Failed(Request("watch_file", path), "path is required", {})]
    ELSE watchValidated(mt, now,
                        [NoWatch EXCEPT !.path = path, !.timeoutParam = timeoutParam,
                                        !.timeout = watchTimeout(timeoutParam)],
                        Request("watch_file", path), validatePath(f, dirs, path))

\* A poll that reports a change without moving the baseline.
watchComparedOnce(w, st, now) ==
    IF st.err # ""
    THEN [w EXCEPT !.events = Append(@, FileWatchEvent(w.validPath, "deleted", now)),
                   !.pc = "return"]
    ELSE IF st.modTime # w.initialStat
    THEN [w EXCEPT !.events = Append(@, FileWatchEvent(w.validPath, "modified", st.modTime)),
                   !.pc = "sleep"]
    ELSE [w EXCEPT !.pc = "sleep"]

\* The body of the loop, up to the sleep or the break.
watchCompared(w, st, now) ==
    IF st.err # ""
    THEN [w EXCEPT !.events = Append(@, FileWatchEvent(w.validPath, "deleted", now)),
                   !.pc = "return"]
    ELSE IF st.modTime # w.initialStat
    THEN [w EXCEPT !.events = Append(@, FileWatchEvent(w.validPath, "modified", st.modTime)),
                   !.initialStat = st.modTime,
                   !.pc = "sleep"]
    ELSE [w EXCEPT !.pc = "sleep"]

\* A loop whose window starts again at every event.
watchPolledAnew(mt, now, w) ==
    IF ~(now - w.startTime < w.timeout) THEN [w EXCEPT !.pc = "return"]
    ELSE [watchCompared(w, ModTime(mt, w.validPath), now) EXCEPT
              !.startTime = IF ModTime(mt, w.validPath).modTime # w.initialStat
                            THEN now ELSE @]

\* The test of the loop and one turn of it.
watchPolled(mt, now, w) ==
    IF ~(now - w.startTime < w.timeout) THEN [w EXCEPT !.pc = "return"]
    ELSE watchCompared(w, ModTime(mt, w.validPath), now)

\* The result: the events, and the number of seconds of the monitoring.
watchReturned(w) ==
    [Request("watch_file", w.path) EXCEPT !.valid = w.validPath, !.items = w.events,
                                          !.count = w.timeout, !.shape = "watch"]

(***************************************************************************)
(* handleCompareFiles: handler_compare.go.  A similarity is kept as the    *)
(* fraction the code divides, so that its comparisons are exact.           *)
(***************************************************************************)
Ratio(num, den) == [num |-> num, den |-> den]
Greater(a, b) == a.num * b.den > b.num * a.den

similarityThreshold == Ratio(6, 10)

\* bufio.ScanLines drops one trailing carriage return of a line.
dropCR(s) == IF s # <<>> /\ s[Len(s)] = "\r" THEN SubSeq(s, 1, Len(s) - 1) ELSE s

RECURSIVE ScanLines(_)
\* The tokens of a bufio.Scanner: the lines without their end; a last line
\* without newline counts when it is not empty.
ScanLines(s) ==
    IF s = <<>> THEN <<>>
    ELSE IF Index(s, <<"\n">>) = 0 THEN <<dropCR(s)>>
    ELSE <<dropCR(SubSeq(s, 1, Index(s, <<"\n">>) - 1))>>
         \o ScanLines(SubSeq(s, Index(s, <<"\n">>) + 1, Len(s)))

TrimmedLines(lines) == [i \in DOMAIN lines |-> TrimSpace(lines[i])]

readFileLinesOf(rd) ==
    IF rd.err # "" THEN [err |-> rd.err, lines |-> <<>>]
    ELSE [err |-> "", lines |-> TrimmedLines(ScanLines(rd.data))]

readFileLines(f, path) == readFileLinesOf(osReadFile(f, path, "none"))

min3(a, b, c) == IF a < b /\ a < c THEN a ELSE IF b < c THEN b ELSE c

levenshteinDistance(s1, s2) ==
    LET matrix[i \in 0..Len(s1), j \in 0..Len(s2)] ==
            IF j = 0 THEN i
            ELSE IF i = 0 THEN j
            ELSE min3(matrix[i - 1, j] + 1,
                      matrix[i, j - 1] + 1,
                      matrix[i - 1, j - 1] + (IF s1[i] # s2[j] THEN 1 ELSE 0))
    IN  matrix[Len(s1), Len(s2)]

similarityOf(longer, shorter) ==
    Ratio(Len(longer) - levenshteinDistance(longer, shorter), Len(longer))

calculateStringSimilarity(s1, s2) ==
    IF s1 = s2 THEN Ratio(1, 1)
    ELSE IF Len(s1) = 0 \/ Len(s2) = 0 THEN Ratio(0, 1)
    ELSE IF Len(s2) > Len(s1) THEN similarityOf(s2, s1)
    ELSE similarityOf(s1, s2)

RECURSIVE bestMatchFrom(_, _, _, _, _, _)
bestMatchStep(removedLine, added, usedAdded, i, bestMatch, bestSimilarity, similarity) ==
    IF Greater(similarity, bestSimilarity) /\ Greater(similarity, similarityThreshold)
    THEN bestMatchFrom(removedLine, added, usedAdded, i + 1, i, similarity)
    ELSE bestMatchFrom(removedLine, added, usedAdded, i + 1, bestMatch, bestSimilarity)

\* The inner loop of findModifiedLines from added[i] on; 0 stands for -1.
bestMatchFrom(removedLine, added, usedAdded, i, bestMatch, bestSimilarity) ==
    IF i > Len(added) THEN bestMatch
    ELSE IF i \in usedAdded
    THEN bestMatchFrom(removedLine, added, usedAdded, i + 1, bestMatch, bestSimilarity)
    ELSE bestMatchStep(removedLine, added, usedAdded, i, bestMatch, bestSimilarity,
                       calculateStringSimilarity(removedLine, added[i]))

\* fmt.Sprintf("%s -> %s", removedLine, added[bestMatch]): the two lines are kept.
ModifiedLine(removedLine, addedLine) == [removed |-> removedLine, added |-> addedLine]

RECURSIVE modifiedFrom(_, _, _, _, _)
modifiedMatched(removed, added, k, usedAdded, modified, bestMatch) ==
    IF bestMatch # 0
    THEN modifiedFrom(removed, added, k + 1, usedAdded \cup {bestMatch},
                      Append(modified, ModifiedLine(removed[k], added[bestMatch])))
    ELSE modifiedFrom(removed, added, k + 1, usedAdded, modified)

\* The outer loop of findModifiedLines from removed[k] on.
modifiedFrom(removed, added, k, usedAdded, modified) ==
    IF k > Len(removed) THEN modified
    ELSE modifiedMatched(removed, added, k, usedAdded, modified,
                         bestMatchFrom(removed[k], added, usedAdded, 1, 0, Ratio(0, 1)))

findModifiedLines(removed, added) == modifiedFrom(removed, added, 1, {}, <<>>)

Among(line, lines) == \E i \in DOMAIN lines : lines[i] = line

FileDiff(Added, Removed, Modified, Unchanged, Similar) ==
    [Added |-> Added, Removed |-> Removed, Modified |-> Modified, Unchanged |-> Unchanged,
     Similar |-> Similar]

Compared(err, diff) == [err |-> err, diff |-> diff]

textSimilar(unchanged, totalLines) ==
    IF totalLines > 0 THEN Ratio(unchanged * 2 * 100, totalLines) ELSE Ratio(100, 1)

textDiff(lines1, lines2, Added, Removed, Unchanged) ==
    FileDiff(Added, Removed, findModifiedLines(Removed, Added), Unchanged,
             textSimilar(Unchanged, Len(lines1) + Len(lines2)))

textCompared(lines1, lines2) ==
    textDiff(lines1, lines2,
             SelectSeq(lines2, LAMBDA line : ~Among(line, lines1)),
             SelectSeq(lines1, LAMBDA line : ~Among(line, lines2)),
             Len(SelectSeq(lines1, LAMBDA line : Among(line, lines2))))

textRead(rd1, rd2) ==
    IF rd1.err # "" THEN Compared("error reading file1", <<>>)
    ELSE IF rd2.err # "" THEN Compared("error reading file2", <<>>)
    ELSE Compared("", textCompared(rd1.lines, rd2.lines))

compareTextFiles(f, path1, path2) == textRead(readFileLines(f, path1), readFileLines(f, path2))

\* calculateFileMD5 of two files gives one hash when they hold the same bytes.
binaryRead(rd1, rd2) ==
    IF rd1.err # "" THEN Compared("error calculating hash for file1", <<>>)
    ELSE IF rd2.err # "" THEN Compared("error calculating hash for file2", <<>>)
    ELSE IF rd1.data = rd2.data THEN Compared("", FileDiff(<<>>, <<>>, <<>>, 1, Ratio(100, 1)))
    ELSE Compared("", FileDiff(<<"Binary files differ">>, <<>>, <<>>, 0, Ratio(0, 1)))

compareBinaryFiles(f, path1, path2) ==
    binaryRead(osReadFile(f, path1, "none"), osReadFile(f, path2, "none"))

compareFiles(f, path1, path2) ==
    IF ~isTextFile(detectMimeType(f, path1)) \/ ~isTextFile(detectMimeType(f, path2))
    THEN compareBinaryFiles(f, path1, path2)
    ELSE compareTextFiles(f, path1, path2)

compareDone(f, r, cmp) ==
    IF cmp.err # "" THEN Out(f, Failed(r, "Comparison error", r.sys))
    ELSE IF cmp.diff.Similar = Ratio(100, 1) \/ cmp.diff.Similar.num = 100 * cmp.diff.Similar.den
    THEN Out(f, [r EXCEPT !.shape = "identical", !.diff = cmp.diff])
    ELSE Out(f, [r EXCEPT !.shape = "diff", !.diff = cmp.diff])

compareValidated(f, r, v1, v2) ==
    IF v1.err # "" THEN Out(f, Failed(r, "Error with file1", v1.sys))
    ELSE IF v2.err # "" THEN Out(f, Failed(r, "Error with file2", v2.sys))
    ELSE IF IsNotExist(Stat(f, v1.path).err) THEN Out(f, Failed(r, "file1 does not exist", v1.sys))
    ELSE IF IsNotExist(Stat(f, v2.path).err) THEN Out(f, Failed(r, "file2 does not exist", v2.sys))
    ELSE compareDone(f, [r EXCEPT !.valid = v1.path, !.dest = v2.path],
                     compareFiles(f, v1.path, v2.path))

handleCompareFiles(f, dirs, file1, file2) ==
    IF file1 = <<>> \/ file2 = <<>>
    THEN Out(f, Failed([Request("compare_files", file1) EXCEPT !.new = file2],
                       "both file1 and file2 are required", {}))
    ELSE compareValidated(f, [Request("compare_files", file1) EXCEPT !.new = file2],
                          validatePath(f, dirs, file1), validatePath(f, dirs, file2))

(***************************************************************************)
(* The handleCopyFile of handler.go, which copies directories with         *)
(* copyDir.  The operating system refuses a path of more than MaxNest      *)
(* elements (ENAMETOOLONG), as it refuses one longer than PATH_MAX.        *)
(***************************************************************************)
Letters ==
    <<".", "a", "b", "c", "d", "e", "f", "g", "h", "i", "j", "k", "l", "m", "n", "o", "p",
      "q", "r", "s", "t", "u", "v", "w", "x", "y", "z">>

Rank(c) == CHOOSE i \in DOMAIN Letters : Letters[i] = c

RECURSIVE NameBefore(_, _)
NameBefore(a, b) ==
    IF a = <<>> THEN b # <<>>
    ELSE IF b = <<>> THEN FALSE
    ELSE IF Head(a) = Head(b) THEN NameBefore(Tail(a), Tail(b))
    ELSE Rank(Head(a)) < Rank(Head(b))

RECURSIVE SortedNames(_)
FirstName(names) == CHOOSE x \in names : \A y \in names \ {x} : NameBefore(x, y)
SortedNames(names) ==
    IF names = {} THEN <<>>
    ELSE <<FirstName(names)>> \o SortedNames(names \ {FirstName(names)})

\* os.ReadDir(dir): the entries sorted by name, each with the type it has when
\* the directory is read.
Entry(name, type) == [name |-> name, type |-> type]
EntriesOf(f, real) ==
    [i \in DOMAIN SortedNames({Base(q) : q \in ReadDir(f, real)}) |->
        Entry(SortedNames({Base(q) : q \in ReadDir(f, real)})[i],
              f[JoinPath(real, SortedNames({Base(q) : q \in ReadDir(f, real)})[i])].kind)]
osReadDir(f, dir) ==
    IF Stat(f, dir).err # "" THEN [err |-> Stat(f, dir).err, entries |-> <<>>]
    ELSE IF ~Stat(f, dir).isDir THEN [err |-> "ENOTDIR", entries |-> <<>>]
    ELSE [err |-> "", entries |-> EntriesOf(f, Resolve(f, dir).path)]

NameTooLong(p) == Len(Comps(p)) > MaxNest

Done(err, f) == [err |-> err, fs |-> f]

RECURSIVE copyDir(_, _, _)
RECURSIVE copyEntries(_, _, _, _)

\* The body of the loop of copyDir for one entry.
copyEntry(f, src, dst, entry) ==
    IF entry.type = "link" THEN Done("", f)
    ELSE IF entry.type = "dir" THEN copyDir(f, JoinPath(src, entry.name), JoinPath(dst, entry.name))
    ELSE IF NameTooLong(JoinPath(src, entry.name)) \/ NameTooLong(JoinPath(dst, entry.name))
    THEN Done("ENAMETOOLONG", f)
    ELSE copyFile(f, JoinPath(src, entry.name), JoinPath(dst, entry.name))

copyEntriesOn(done, src, dst, entries) ==
    IF done.err # "" THEN done ELSE copyEntries(done.fs, src, dst, entries)

\* The loop of copyDir over the entries that were read.
copyEntries(f, src, dst, entries) ==
    IF entries = <<>> THEN Done("", f)
    ELSE copyEntriesOn(copyEntry(f, src, dst, Head(entries)), src, dst, Tail(entries))

copyDirRead(f, src, dst, rd) ==
    IF rd.err # "" THEN Done(rd.err, f) ELSE copyEntries(f, src, dst, rd.entries)

copyDirMade(mk, src, dst) ==
    IF mk.err # "" THEN mk ELSE copyDirRead(mk.fs, src, dst, osReadDir(mk.fs, src))

copyDir(f, src, dst) ==
    IF NameTooLong(src) THEN Done("ENAMETOOLONG", f)
    ELSE IF Stat(f, src).err # "" THEN Done(Stat(f, src).err, f)
    ELSE IF NameTooLong(dst) THEN Done("ENAMETOOLONG", f)
    ELSE copyDirMade(osMkdirAll(f, dst), src, dst)

copyTreeDone(r, cp, isDir) ==
    IF cp.err # ""
    THEN Out(cp.fs, Failed([r EXCEPT !.text = cp.err],
                           IF isDir THEN "Error copying directory" ELSE "Error copying file",
                           r.sys))
    ELSE Out(cp.fs, [r EXCEPT !.shape = "copied", !.uri = pathToResourceURI(r.dest)])

copyTreeMade(r, mk, srcInfo) ==
    IF mk.err # "" THEN Out(mk.fs, Failed(r, "Error creating destination directory", r.sys))
    ELSE copyTreeDone(r, IF srcInfo.isDir THEN copyDir(mk.fs, r.valid, r.dest)
                         ELSE copyFile(mk.fs, r.valid, r.dest),
                      srcInfo.isDir)

copyTreeDest(f, r, srcInfo, vDest) ==
    IF vDest.err # "" THEN Out(f, Failed(r, "Error with destination path", vDest.sys))
    ELSE copyTreeMade([r EXCEPT !.dest = vDest.path], osMkdirAll(f, Dir(vDest.path)), srcInfo)

copyTreeStat(f, dirs, r, srcInfo, destination) ==
    IF IsNotExist(srcInfo.err) THEN Out(f, Failed(r, "Source does not exist", r.sys))
    ELSE IF srcInfo.err # "" THEN Out(f, Failed(r, "Error accessing source", r.sys))
    ELSE copyTreeDest(f, r, srcInfo, validatePath(f, dirs, destination))

copyTreeSource(f, dirs, r, vSource, destination) ==
    IF vSource.err # "" THEN Out(f, Failed(r, "Error with source path", vSource.sys))
    ELSE copyTreeStat(f, dirs, Validated(r, vSource), Stat(f, vSource.path), destination)

handleCopyFileTree(f, dirs, source, destination) ==
    copyTreeSource(f, dirs,
                   [Request("copy_file", source) EXCEPT !.new = destination, !.follow = TRUE],
                   validatePath(f, dirs, Shortcut(source)), Shortcut(destination))

(***************************************************************************)
(* The world of the model: a directory /d to serve, with a file, a          *)
(* subdirectory and a symbolic link l; beside it /ds (whose name begins     *)
(* like the root's), /e and /o, which holds a link into /d.                 *)
(***************************************************************************)
pD == <<"/", "d">>
pDF == <<"/", "d", "/", "f">>
pDK == <<"/", "d", "/", "k">>
pDKG == <<"/", "d", "/", "k", "/", "g">>
pDL == <<"/", "d", "/", "l">>
pDN == <<"/", "d", "/", "n">>
pDS == <<"/", "d", "s">>
pDSX == <<"/", "d", "s", "/", "x">>
pE == <<"/", "e">>
pEP == <<"/", "e", "/", "p">>
pEN == <<"/", "e", "/", "n">>
pO == <<"/", "o">>
pOM == <<"/", "o", "/", "m">>
pDLN == <<"/", "d", "/", "l", "/", "n">>
pDZN == <<"/", "d", "/", "z", "/", "n">>
pDFN == <<"/", "d", "/", "f", "/", "n">>
pOMN == <<"/", "o", "/", "m", "/", "n">>

Filesystem(linkTarget, text) ==
    (pD :> Dirent) @@ (pDF :> File(text)) @@ (pDK :> Dirent) @@ (pDKG :> File(<<"g">>))
    @@ (pDL :> Link(linkTarget)) @@ (pDS :> Dirent) @@ (pDSX :> File(<<"s">>))
    @@ (pE :> Dirent) @@ (pEP :> File(<<"s">>)) @@ (pO :> Dirent) @@ (pOM :> Link(pD))

\* Where /d/l may point: a file outside, a directory outside, nothing yet
\* (outside), the sibling /ds, a directory inside, itself, a file inside.
LinkTargets == {pEP, pE, pEN, pDSX, pDK, pDL, pDF}

\* The directories the server may be started with.
RootArgs == {<<pD>>, <<pD, pE>>}

\* What /d/f may hold.
FileTexts == {<<"a", "b">>, <<"a", " ", " ", "b", "\r", "\n", "a">>, <<" ", "a", "\n", "b">>}

\* The paths a request may name: the last five are a path with "..", one with
\* ".." that stays inside, a relative path, and the working directory.
ReqPaths ==
    { pDF, pDL, pDN, pDSX, pEP, pDLN, pDZN, pDFN, pOMN,
      <<"/", "d", "/", ".", ".", "/", "e", "/", "p">>,
      <<"/", "d", "/", "k", "/", ".", ".", "/", "f">>,
      <<"g">>, <<".">> }

\* The directories a tree request may name.
TreePaths == {pD, pDL, pDS, pE, <<".">>, <<".", ".">>}

Contents == {<<"c", "d">>}
WriteFaults == {"none", "open", "short"}
ReadFaults == {"none", "fail"}

Init ==
    /\ \E t \in LinkTargets : fs = Filesystem(t, <<"a", "b">>)
    /\ \E args \in RootArgs :
          /\ NewFilesystemHandlerOk(fs, args)
          /\ allowedDirs = NewFilesystemHandler(args)
    /\ pre = fs
    /\ res = NoRes
    /\ nreq = 0
    /\ hist = <<>>
    /\ Unwatched

\* One request is served at a time: the handler runs to its return.
Serve(out) ==
    /\ res.op = "none"
    /\ nreq < MaxRequests
    /\ fs' = out.fs
    /\ res' = out.res
    /\ pre' = fs
    /\ nreq' = nreq + 1
    /\ UNCHANGED <<allowedDirs, hist, watch, clock, mtime>>

\* The result is handed to the transport; the next request may begin.
Respond ==
    /\ res.op # "none"
    /\ res' = NoRes
    /\ pre' = fs
    /\ UNCHANGED <<allowedDirs, fs, nreq, hist, watch, clock, mtime>>

ReadFile ==
    \E p \in ReqPaths \cup TreePaths, rf \in ReadFaults :
        Serve(handleReadFile(fs, allowedDirs, p, rf))

WriteFile ==
    \E p \in ReqPaths, c \in Contents, wf \in WriteFaults :
        Serve(handleWriteFile(fs, allowedDirs, p, c, wf))

TreeView ==
    \E p \in TreePaths, d \in 0..MaxDepth, fl \in BOOLEAN :
        Serve(handleTree(fs, allowedDirs, p, d, fl))

Next == ReadFile \/ WriteFile \/ TreeView \/ Respond

Spec == Init /\ [][Next]_vars

(***************************************************************************)
(* The edit_file requests, on the same world with the texts of /d/f varied. *)
(***************************************************************************)
EditPaths == {pDF, pDL, pDK, pDSX, pDN}

OldTexts ==
    { <<"a">>, <<"a", " ", "b">>, <<"b", "\n", "a">>, <<"x">>, <<>>, <<" ">> }

NewTexts == {<<"c">>, <<"a", "a">>}

NoFault == [bread |-> "none", bwrite |-> "none", read |-> "none", write |-> "none"]

\* At most one system call of a request fails.
FaultPlans ==
    {NoFault, [NoFault EXCEPT !.bread = "fail"], [NoFault EXCEPT !.read = "fail"]}
    \cup {[NoFault EXCEPT !.bwrite = w] : w \in WriteFaults}
    \cup {[NoFault EXCEPT !.write = w] : w \in WriteFaults}

InitEdit ==
    /\ \E t \in {pEP, pDF}, x \in FileTexts : fs = Filesystem(t, x)
    /\ allowedDirs = NewFilesystemHandler(<<pD>>)
    /\ NewFilesystemHandlerOk(fs, <<pD>>)
    /\ pre = fs
    /\ res = NoRes
    /\ nreq = 0
    /\ hist = <<>>
    /\ Unwatched

EditFile ==
    \E p \in EditPaths, o \in OldTexts, n \in NewTexts, plan \in FaultPlans :
        Serve(handleEditFile(fs, allowedDirs, p, o, n, plan))

NextEdit == EditFile \/ Respond

SpecEdit == InitEdit /\ [][NextEdit]_vars

(***************************************************************************)
(* The editor alone: edit_file on /d/f without faults, over contents and    *)
(* texts chosen for the tiers of performIntelligentEdit.                    *)
(***************************************************************************)
EditorTexts ==
    { <<"a", "a", "b">>, <<"a", " ", "a">>, <<"a", "\n", "b", "\n", "a">>,
      <<"a", "b", " ", "a", "b">> }

EditorOlds == { <<"a", "b">>, <<" ", "a">>, <<"b", "\n", "a">>, <<"a">>, <<"x">> }

EditorNews == { <<"b">>, <<"c">> }

InitEditor ==
    /\ \E c \in EditorTexts : fs = Filesystem(pEP, c)
    /\ allowedDirs = NewFilesystemHandler(<<pD>>)
    /\ NewFilesystemHandlerOk(fs, <<pD>>)
    /\ pre = fs
    /\ res = NoRes
    /\ nreq = 0
    /\ hist = <<>>
    /\ Unwatched

EditorApply ==
    \E o \in EditorOlds, n \in EditorNews :
        Serve(handleEditFile(fs, allowedDirs, pDF, o, n, NoFault))

NextEditor == EditorApply \/ Respond

SpecEditor == InitEditor /\ [][NextEditor]_vars

(***************************************************************************)
(* The write_file_safe requests.                                           *)
(***************************************************************************)
SafePaths == {pDF, pDL, pDN, pDK, pDSX}

SafeContents == {<<"c", "d">>, <<>>}

SafeNoFault ==
    [bread |-> "none", bwrite |-> "none", mkdir |-> "none", write |-> "none",
     rename |-> "none"]

\* At most one system call of a request fails.
SafePlans ==
    { SafeNoFault, [SafeNoFault EXCEPT !.bread = "fail"], [SafeNoFault EXCEPT !.bwrite = "short"],
      [SafeNoFault EXCEPT !.mkdir = "fail"], [SafeNoFault EXCEPT !.write = "open"],
      [SafeNoFault EXCEPT !.write = "short"], [SafeNoFault EXCEPT !.rename = "fail"] }

InitSafe ==
    /\ \E t \in {pEN, pDF, pEP} : fs = Filesystem(t, <<"a", "b">>)
    /\ allowedDirs = NewFilesystemHandler(<<pD>>)
    /\ NewFilesystemHandlerOk(fs, <<pD>>)
    /\ pre = fs
    /\ res = NoRes
    /\ nreq = 0
    /\ hist = <<>>
    /\ Unwatched

WriteFileSafe ==
    \E p \in SafePaths, c \in SafeContents, b \in BOOLEAN, plan \in SafePlans :
        Serve(handleWriteFileSafe(fs, allowedDirs, p, c, b, plan))

NextSafe == WriteFileSafe \/ Respond

SpecSafe == InitSafe /\ [][NextSafe]_vars

(***************************************************************************)
(* The read_file requests on files of every kind and size: /d/f is a text,  *)
(* an image or another binary file, at and around the two thresholds, and   *)
(* /d/l is a link to it.                                                    *)
(***************************************************************************)
MimeTypes == {"text/plain", "application/json", "image/png", "application/octet-stream"}

FileSizes == {2, MAX_BASE64_SIZE, MAX_BASE64_SIZE + 1, MAX_INLINE_SIZE, MAX_INLINE_SIZE + 1}

SizedPaths == {pDF, pDL, pD, pDN, pDSX}

InitSized ==
    /\ \E size \in FileSizes, mime \in MimeTypes :
          fs = (pDF :> FileOf(<<"a", "b">>, size, mime)) @@ Filesystem(pDF, <<"a", "b">>)
    /\ allowedDirs = NewFilesystemHandler(<<pD>>)
    /\ NewFilesystemHandlerOk(fs, <<pD>>)
    /\ pre = fs
    /\ res = NoRes
    /\ nreq = 0
    /\ hist = <<>>
    /\ Unwatched

ReadSized ==
    \E p \in SizedPaths, rf \in ReadFaults : Serve(handleReadFile(fs, allowedDirs, p, rf))

NextSized == ReadSized \/ Respond

SpecSized == InitSized /\ [][NextSized]_vars

(***************************************************************************)
(* The batch_operations requests: batches of at most MaxOps operations on   *)
(* /d.                                                                      *)
(***************************************************************************)
MaxOps == 2

Op(type, has) ==
    [map |-> TRUE, type |-> type, has |-> has, path |-> <<>>, from |-> <<>>, to |-> <<>>,
     content |-> <<>>, recursive |-> FALSE]

NotAMap == [Op("", {}) EXCEPT !.map = FALSE]

OnPath(type, path) == [Op(type, {"type", "path"}) EXCEPT !.path = path]

FromTo(type, from, to) == [Op(type, {"type", "from", "to"}) EXCEPT !.from = from, !.to = to]

Writing(path, content) ==
    [Op("write", {"type", "path", "content"}) EXCEPT !.path = path, !.content = content]

BatchOps ==
    { OnPath("MKDIR", <<"/", "d", "/", "z">>),
      Writing(pDZN, <<"c", "d">>),
      OnPath("delete", pDF),
      FromTo("move", pDF, pDZN),
      FromTo("copy", pDF, pDN),
      Op("chmod", {"type"}),
      NotAMap }

RECURSIVE BatchesOf(_)
BatchesOf(n) ==
    IF n = 0 THEN {<<>>} ELSE {Append(b, op) : b \in BatchesOf(n - 1), op \in BatchOps}

Batches == UNION {BatchesOf(n) : n \in 0..MaxOps}

InitBatch ==
    /\ fs = Filesystem(pDK, <<"a", "b">>)
    /\ allowedDirs = NewFilesystemHandler(<<pD>>)
    /\ NewFilesystemHandlerOk(fs, <<pD>>)
    /\ pre = fs
    /\ res = NoRes
    /\ nreq = 0
    /\ hist = <<>>
    /\ Unwatched

BatchOperations ==
    \E ops \in Batches : Serve(handleBatchEdit(fs, allowedDirs, TRUE, ops))

BatchNotArray == Serve(handleBatchEdit(fs, allowedDirs, FALSE, <<>>))

NextBatch == BatchOperations \/ BatchNotArray \/ Respond

SpecBatch == InitBatch /\ [][NextBatch]_vars

(***************************************************************************)
(* The read_multiple_files requests: up to MaxPaths elements out of a file  *)
(* (a text, a binary file or a text too large to inline), a link that       *)
(* leaves /d, a missing file, a directory, the working directory and a      *)
(* number.                                                                  *)
(***************************************************************************)
MaxPaths == 2

Str(path) == [str |-> TRUE, path |-> path]
NotStr == [str |-> FALSE, path |-> <<>>]

ManyPaths == {Str(pDF), Str(pDL), Str(pDN), Str(pD), Str(<<".">>), NotStr}

RECURSIVE PathsOf(_)
PathsOf(n) ==
    IF n = 0 THEN {<<>>} ELSE {Append(ps, e) : ps \in PathsOf(n - 1), e \in ManyPaths}

PathLists == UNION {PathsOf(n) : n \in 0..MaxPaths}

ManyFiles ==
    { FileOf(<<"a", "b">>, 2, "text/plain"),
      FileOf(<<"a", "b">>, 2, "application/octet-stream"),
      FileOf(<<"a", "b">>, MAX_INLINE_SIZE + 1, "text/plain") }

InitMany ==
    /\ \E file \in ManyFiles : fs = (pDF :> file) @@ Filesystem(pEP, <<"a", "b">>)
    /\ allowedDirs = NewFilesystemHandler(<<pD>>)
    /\ NewFilesystemHandlerOk(fs, <<pD>>)
    /\ pre = fs
    /\ res = NoRes
    /\ nreq = 0
    /\ hist = <<>>
    /\ Unwatched

ReadMultipleFiles ==
    \E paths \in PathLists : \E failAt \in 0..Len(paths) :
        Serve(handleReadMultipleFiles(fs, allowedDirs, TRUE, paths, failAt))

ReadMultipleNotArray == Serve(handleReadMultipleFiles(fs, allowedDirs, FALSE, <<>>, 0))

NextMany == ReadMultipleFiles \/ ReadMultipleNotArray \/ Respond

SpecMany == InitMany /\ [][NextMany]_vars

(***************************************************************************)
(* The chunked_write requests: chunks numbered 0..MaxChunk-1 in any order;  *)
(* the results are kept in hist.                                            *)
(***************************************************************************)
MaxChunk == 2

Chunk(path, content, index, wfault) ==
    [path |-> path, content |-> content, index |-> index, wfault |-> wfault]

\* The requests: chunks of two contents on a file and on a new name; on a link
\* to the file; with a write that fails midway; on a directory; without content;
\* with an open that fails.
ChunkRequests ==
    {Chunk(p, c, i, "none") : p \in {pDF, pDN}, c \in {<<"c", "d">>, <<"e">>}, i \in 0..(MaxChunk - 1)}
    \cup {Chunk(pDL, <<"e">>, i, "none") : i \in 0..(MaxChunk - 1)}
    \cup {Chunk(pDF, <<"c", "d">>, i, "short") : i \in 0..(MaxChunk - 1)}
    \cup {Chunk(pDK, <<"e">>, 0, "none"), Chunk(pDF, <<>>, 0, "none"),
          Chunk(pDF, <<"e">>, 0, "open")}

InitChunk ==
    /\ fs = Filesystem(pDF, <<"a", "b">>)
    /\ allowedDirs = NewFilesystemHandler(<<pD>>)
    /\ NewFilesystemHandlerOk(fs, <<pD>>)
    /\ pre = fs
    /\ res = NoRes
    /\ nreq = 0
    /\ hist = <<>>
    /\ Unwatched

\* A request is answered and its result kept.
Logged(out) ==
    /\ nreq < MaxRequests
    /\ fs' = out.fs
    /\ res' = out.res
    /\ pre' = fs
    /\ nreq' = nreq + 1
    /\ hist' = Append(hist, out.res)
    /\ UNCHANGED <<allowedDirs, watch, clock, mtime>>

ChunkedWrite ==
    \E q \in ChunkRequests :
        Logged(handleChunkedWrite(fs, allowedDirs, q.path, q.content, q.index, MaxChunk,
                                  q.wfault))

NextChunk == ChunkedWrite

SpecChunk == InitChunk /\ [][NextChunk]_vars

(***************************************************************************)
(* The join_files requests: up to MaxParts sources joined into a new name   *)
(* or into the file /d/f.                                                   *)
(***************************************************************************)
MaxParts == 2
MaxTouch == 2

JoinSources == {Str(pDF), Str(pDKG), Str(pDK), NotStr}

RECURSIVE SourcesOf(_)
SourcesOf(n) ==
    IF n = 0 THEN {<<>>} ELSE {Append(ps, e) : ps \in SourcesOf(n - 1), e \in JoinSources}

SourceLists == UNION {SourcesOf(n) : n \in 0..MaxParts}

InitJoin ==
    /\ fs = Filesystem(pDF, <<"a", "b">>)
    /\ allowedDirs = NewFilesystemHandler(<<pD>>)
    /\ NewFilesystemHandlerOk(fs, <<pD>>)
    /\ pre = fs
    /\ res = NoRes
    /\ nreq = 0
    /\ hist = <<>>
    /\ Unwatched

JoinFiles ==
    \E target \in {pDN, pDF}, sources \in SourceLists :
        Serve(handleJoinFiles(fs, allowedDirs, target, sources))

NextJoin == JoinFiles \/ Respond

SpecJoin == InitJoin /\ [][NextJoin]_vars

(***************************************************************************)
(* The copy_file requests, where /d/l is a link to /d/f.                    *)
(***************************************************************************)
CopySources == {pDF, pDL, pDK, pDKG, pDN}
CopyDests == {pDN, pDF, pDL, pDK, pDZN, pEP}

InitCopy ==
    /\ fs = Filesystem(pDF, <<"a", "b">>)
    /\ allowedDirs = NewFilesystemHandler(<<pD>>)
    /\ NewFilesystemHandlerOk(fs, <<pD>>)
    /\ pre = fs
    /\ res = NoRes
    /\ nreq = 0
    /\ hist = <<>>
    /\ Unwatched

CopyFile ==
    \E x \in CopySources, y \in CopyDests : Serve(handleCopyFile(fs, allowedDirs, x, y))

NextCopy == CopyFile \/ Respond

SpecCopy == InitCopy /\ [][NextCopy]_vars

(***************************************************************************)
(* One watch_file call, while /d/f is touched, removed and made again.     *)
(* hist keeps when the call began and the modification time it found.      *)
(***************************************************************************)
WatchPaths == {pDF, pDL, pDN, pEP, <<>>}
WatchTimeouts == {-2, 0, 1, 2, 3, 4}

\* The paths whose os.Stat is kept in mtime, and those of them that name /d/f.
StatPaths == {pDF, pDL, pDN}
StatsOfFile == {p \in StatPaths : Resolve(Filesystem(pDF, <<>>), p).path = pDF}

InitWatch ==
    /\ fs = Filesystem(pDF, <<"a", "b">>)
    /\ allowedDirs = NewFilesystemHandler(<<pD>>)
    /\ NewFilesystemHandlerOk(fs, <<pD>>)
    /\ pre = fs
    /\ res = NoRes
    /\ nreq = 0
    /\ hist = <<>>
    /\ watch = NoWatch
    /\ clock = 0
    /\ mtime = [p \in StatPaths |->
                    [err |-> Resolve(fs, p).err, modTime |-> 0]]

WatchFile ==
    \E path \in WatchPaths, timeoutParam \in WatchTimeouts :
        /\ watch.pc = "idle"
        /\ res.op = "none"
        /\ nreq < MaxRequests
        /\ \E s \in {watchStarted(fs, allowedDirs, mtime, clock, path, timeoutParam)} :
              /\ watch' = s.watch
              /\ res' = s.res
              /\ hist' = IF s.watch.pc = "poll"
                         THEN <<[at |-> clock, modTime |-> s.watch.initialStat]>>
                         ELSE hist
        /\ nreq' = nreq + 1
        /\ pre' = fs
        /\ UNCHANGED <<allowedDirs, fs, clock, mtime>>

WatchPoll ==
    /\ watch.pc = "poll"
    /\ watch' = watchPolled(mtime, clock, watch)
    /\ UNCHANGED <<allowedDirs, fs, pre, res, nreq, hist, clock, mtime>>

\* time.Sleep(time.Second)
WatchSleep ==
    /\ watch.pc = "sleep"
    /\ clock' = clock + 1
    /\ watch' = [watch EXCEPT !.pc = "poll"]
    /\ UNCHANGED <<allowedDirs, fs, pre, res, nreq, hist, mtime>>

WatchReturn ==
    /\ watch.pc = "return"
    /\ res' = watchReturned(watch)
    /\ watch' = [watch EXCEPT !.pc = "done", !.returned = clock]
    /\ UNCHANGED <<allowedDirs, fs, pre, nreq, hist, clock, mtime>>

\* Another process writes to the file.
Touch ==
    /\ watch.pc \in {"poll", "sleep"}
    /\ pDF \in DOMAIN fs
    /\ mtime[pDF].modTime < MaxTouch
    /\ mtime' = [p \in StatPaths |->
                    IF p \in StatsOfFile THEN [mtime[p] EXCEPT !.modTime = @ + 1]
                    ELSE mtime[p]]
    /\ UNCHANGED <<allowedDirs, fs, pre, res, nreq, hist, watch, clock>>

\* Another process removes the file.
Unlink ==
    /\ watch.pc \in {"poll", "sleep"}
    /\ pDF \in DOMAIN fs
    /\ fs' = osRemove(fs, pDF)
    /\ mtime' = [p \in StatPaths |->
                    IF p \in StatsOfFile THEN [mtime[p] EXCEPT !.err = "ENOENT"]
                    ELSE mtime[p]]
    /\ UNCHANGED <<allowedDirs, pre, res, nreq, hist, watch, clock>>

\* Another process makes the file again.
Recreate ==
    /\ watch.pc \in {"poll", "sleep"}
    /\ pDF \notin DOMAIN fs
    /\ mtime[pDF].modTime < MaxTouch
    /\ fs' = osWriteFile(fs, pDF, <<"c">>, "none").fs
    /\ mtime' = [p \in StatPaths |->
                    IF p \in StatsOfFile THEN [err |-> "", modTime |-> mtime[p].modTime + 1]
                    ELSE mtime[p]]
    /\ UNCHANGED <<allowedDirs, pre, res, nreq, hist, watch, clock>>

NextWatch ==
    WatchFile \/ WatchPoll \/ WatchSleep \/ WatchReturn \/ Touch \/ Unlink \/ Recreate \/ Respond

SpecWatch == InitWatch /\ [][NextWatch]_vars

\* The call is scheduled: each of its steps is taken when it can be.
FairSpecWatch ==
    SpecWatch /\ WF_vars(WatchPoll) /\ WF_vars(WatchSleep) /\ WF_vars(WatchReturn)

(***************************************************************************)
(* edit_file beside a /d/f.backup that is already there: a file, or a link *)
(* to /e/p outside the root.                                               *)
(***************************************************************************)
pDFBackup == pDF \o BackupSuffix

BackupNodes == {File(<<"o">>), Link(pEP)}

InitBackup ==
    /\ \E b \in BackupNodes : fs = (pDFBackup :> b) @@ Filesystem(pEP, <<"a", "b">>)
    /\ allowedDirs = NewFilesystemHandler(<<pD>>)
    /\ NewFilesystemHandlerOk(fs, <<pD>>)
    /\ pre = fs
    /\ res = NoRes
    /\ nreq = 0
    /\ hist = <<>>
    /\ Unwatched

EditBackedUp ==
    \E p \in {pDF, pDN}, o \in {<<"a">>, <<"x">>}, n \in NewTexts, plan \in FaultPlans :
        Serve(handleEditFile(fs, allowedDirs, p, o, n, plan))

NextBackup == EditBackedUp \/ Respond

SpecBackup == InitBackup /\ [][NextBackup]_vars

(***************************************************************************)
(* The compare_files requests on /d/f and /d/k/g, two texts or two binary  *)
(* files, over contents that differ in a character, in the order of the    *)
(* lines, in their repetition and in their blanks.                         *)
(***************************************************************************)
CompareTexts ==
    { <<"a", "b", "c">>, <<"a", "b", "d">>, <<"a", "\n", "b">>, <<"b", "\n", "a">>,
      <<" ", "a">>, <<"a">>, <<"a", "\n", "a", "\n", "b">>, <<"a", "\n", "b", "\n", "b">>,
      <<"a", "b", "c", "\n", "x">>, <<"a", "b", "d", "\n", "a", "b", "e">>, <<>> }

ComparePaths == {pDF, pDKG, pDK, pDN, pEP, <<>>}

InitCompare ==
    /\ \E x \in CompareTexts, y \in CompareTexts, mime \in {"text/plain", "image/png"} :
          fs = (pDF :> FileOf(x, Len(x), mime)) @@ (pDKG :> FileOf(y, Len(y), mime))
               @@ Filesystem(pEP, <<>>)
    /\ allowedDirs = NewFilesystemHandler(<<pD>>)
    /\ NewFilesystemHandlerOk(fs, <<pD>>)
    /\ pre = fs
    /\ res = NoRes
    /\ nreq = 0
    /\ hist = <<>>
    /\ Unwatched

CompareFiles ==
    \E file1 \in ComparePaths, file2 \in ComparePaths :
        Serve(handleCompareFiles(fs, allowedDirs, file1, file2))

NextCompare == CompareFiles \/ Respond

SpecCompare == InitCompare /\ [][NextCompare]_vars

(***************************************************************************)
(* The copy_file requests on directories.                                  *)
(***************************************************************************)
pDKC == <<"/", "d", "/", "k", "/", "c">>

TreeSources == {pDK, pD, pDF, pDN}
TreeDests == {pDKC, pDN, pDZN, pDK, pEP}

InitTree ==
    /\ fs = Filesystem(pDF, <<"a", "b">>)
    /\ allowedDirs = NewFilesystemHandler(<<pD>>)
    /\ NewFilesystemHandlerOk(fs, <<pD>>)
    /\ pre = fs
    /\ res = NoRes
    /\ nreq = 0
    /\ hist = <<>>
    /\ Unwatched

CopyTree ==
    \E x \in TreeSources, y \in TreeDests : Serve(handleCopyFileTree(fs, allowedDirs, x, y))

NextTree == CopyTree \/ Respond

SpecTree == InitTree /\ [][NextTree]_vars

(***************************************************************************)
(* The properties of the path sandbox.  res is the result of the request   *)
(* just served and pre the filesystem it was served on.                    *)
(***************************************************************************)
\* An allowed root in the form the sandbox is specified with: ending with the
\* separator.
Root(d) == IF HasSuffix(d, <<Sep>>) THEN d ELSE d \o <<Sep>>

\* The clean absolute path p is an allowed root or lies below one, element by
\* element.
Inside(p) == \E i \in 1..Len(allowedDirs) : HasPrefix(p \o <<Sep>>, Root(allowedDirs[i]))

\* The absolute form of the path the request named.
Requested == IF res.op = "edit_file" THEN Abs(res.path) ELSE Abs(Shortcut(res.path))

\* Where the system lands when it opens p in filesystem f, following every
\* symbolic link: the real path of what exists there, or of what a creating
\* open would make; <<>> when p leads nowhere.
Lands(at) == IF at.err = "" \/ at.creatable THEN at.path ELSE <<>>
Location(f, p) == Lands(Resolve(f, p))

\* The paths whose node the request created, removed or changed.
Changed ==
    {q \in DOMAIN fs \cup DOMAIN pre :
        q \notin DOMAIN pre \/ q \notin DOMAIN fs \/ fs[q] # pre[q]}

\* C1: when path validation succeeds and returns v, the fully symlink-resolved
\* location of v lies inside some allowed root.
C1_ValidatedLocationInside ==
    res.valid # <<>> /\ Location(pre, res.valid) # <<>> => Inside(Location(pre, res.valid))

\* C2: a successful write_file creates or changes files only inside an allowed
\* root, also when the file did not exist before.
C2_WriteStaysInside ==
    res.op = "write_file" /\ ~res.isError => \A q \in Changed : Inside(q)

Real == EvalSymlinks(pre, Requested)

\* The calls that read or write what a path names.
ContentCalls == {"read", "write", "readdir", "mkdirall", "remove"}

\* C4: when the requested path passes the lexical check and resolves, the
\* resolved path is checked too: a target outside every allowed root is
\* rejected with "access denied - symlink target outside allowed directories",
\* and the target is neither read nor written.
C4_ResolvedTargetChecked ==
    res.op # "none" /\ Inside(Requested) /\ Real.err = "" /\ ~Inside(Real.path)
        => /\ res.isError
           /\ res.msg = ErrSymlinkOutside
           /\ fs = pre
           /\ \A c \in res.sys : c.call \notin ContentCalls

\* C4 happens: /d/l, a link to the file /e/p outside the only root, is refused
\* to a read.
C4_OutsideTargetRefused ==
    /\ res.op = "read_file"
    /\ res.path = pDL
    /\ pre[pDL] = Link(pEP)
    /\ ~Inside(pEP)
    /\ res.msg = ErrSymlinkOutside

\* lstat of the requested path fails: its final element does not exist.
FinalMissing == ResolveNoFollow(pre, Requested).err # ""

\* The parent of the requested path: whether it is an existing directory,
\* whether it is missing, and where it really is.
ParentIsDir == Stat(pre, Dir(Requested)) = [err |-> "", isDir |-> TRUE]
ParentMissing == Stat(pre, Dir(Requested)).err = "ENOENT"
ParentInside == ParentIsDir /\ Inside(EvalSymlinks(pre, Dir(Requested)).path)

C6_NoAccessOnDenial ==
    res.msg = ErrPathOutside => \A c \in res.sys : c.path # Requested

\* C7: the tree returned never holds a node that is outside every allowed
\* root or that is not a real path, whatever follow_symlinks is; a link whose
\* target is outside is skipped and the entries beside it are still returned.
C7_TreeInside ==
    res.op = "tree" /\ res.shape = "tree"
        => /\ \A n \in res.nodes :
                Inside(n.path) /\ EvalSymlinks(pre, n.path) = [err |-> "", path |-> n.path]
           /\ res.depth >= 1 =>
                \A q \in ReadDir(pre, res.valid) :
                    pre[q].kind # "link" => \E n \in res.nodes : n.path = q /\ n.depth = 1

\* C7 happens: the tree of /d with follow_symlinks, while /d/l is a link to the
\* directory /e outside the only root, holds /d/k/g and nothing of /e.
C7_OutsideLinkSkipped ==
    /\ res.op = "tree"
    /\ res.follow
    /\ res.path = pD
    /\ res.depth = 2
    /\ pre[pDL] = Link(pE)
    /\ ~Inside(pE)
    /\ Node(pDKG, "file", 2) \in res.nodes
    /\ \A n \in res.nodes : n.path \notin {pE, pEP, pDL}

C9_BackupGone ==
    res.op = "edit_file" /\ res.backupCreated => res.backup \notin DOMAIN fs

\* C10: when writing the edited content fails, the content of the file is what
\* it was before the call.
C10_RestoredOnWriteFailure ==
    res.op = "edit_file" /\ res.msg = "error writing file"
        => fs[res.valid].data = pre[res.valid].data

(***************************************************************************)
(* The properties of the editor.                                           *)
(***************************************************************************)
\* The content edited and the texts of the request, line endings normalized.
EditedContent == normalizeLineEndings(pre[res.valid].data)
OldText == normalizeLineEndings(res.old)
NewText == normalizeLineEndings(res.new)

\* The request is an edit whose old text occurs literally in the content.
ExactCase ==
    /\ res.op = "edit_file"
    /\ res.valid \in DOMAIN pre
    /\ pre[res.valid].kind = "file"
    /\ OldText # <<>>
    /\ Contains(EditedContent, OldText)

\* The content after the editor's answer r to a request on content.
ContentAfter(r, content) == IF r.err # "" THEN content ELSE r.ModifiedContent

\* The content after a second application of the same edit to the result of
\* the first.
EditedAgain == ContentAfter(performIntelligentEdit(res.text, res.old, res.new), res.text)

SomeLineHolds(s, sub) == LinesContaining(Split(s, "\n"), sub) > 0

LineOf(s, k) == 1 + Count(SubSeq(s, 1, k - 1), <<"\n">>)

\* The lines of s that hold a part of some occurrence of sub.
LinesTouched(s, sub) ==
    {LineOf(s, k) : k \in {k \in 1..Len(s) :
        \E i \in 1..k : /\ k <= i + Len(sub) - 1
                        /\ i + Len(sub) - 1 <= Len(s)
                        /\ SubSeq(s, i, i + Len(sub) - 1) = sub}}

\* C12: when the old text occurs literally in the content, on one line or
\* across several, the edit replaces every occurrence by the new text, reports
\* confidence high, and reports as lines affected the number of lines that
\* hold an occurrence.
C12_ExactReplacesEvery ==
    ExactCase
        => /\ res.shape = "edited"
           /\ res.text = ReplaceAll(EditedContent, OldText, NewText)
           /\ res.confidence = "high"
           /\ res.lines = Cardinality(LinesTouched(EditedContent, OldText))

(***************************************************************************)
(* The properties of write_file_safe.                                      *)
(***************************************************************************)
\* What a reader finds at path p of filesystem f.
Absent == [kind |-> "absent"]
Seen(f, p) == IF Resolve(f, p).err # "" THEN Absent ELSE NodeAt(f, Resolve(f, p).path)

C14_FailedSafeWriteLeavesNoTmp ==
    res.op = "write_file_safe" /\ res.isError /\ res.valid # <<>>
        => res.valid \o TmpSuffix \notin DOMAIN fs

(***************************************************************************)
(* The properties of read_file's answer.                                   *)
(***************************************************************************)
\* The file a read_file request names, when it names one.
ReadsFile == res.op = "read_file" /\ ~res.isError /\ Seen(pre, Requested).kind = "file"

\* C15: the answer of read_file is an inline text, an inline image, an inline
\* blob or a reference; bytes of the file are inline only when its size is at
\* most the threshold (MAX_INLINE_SIZE for a text, MAX_BASE64_SIZE for an image
\* or blob); a file larger than MAX_INLINE_SIZE gives a reference with the
\* file:// URI and no byte of the file.
C15_InlineOnlyWithinThreshold ==
    res.op = "read_file" /\ ~res.isError
        => /\ res.shape \in {"text", "image", "blob", "reference", "directory"}
           /\ res.shape = "text" =>
                /\ Seen(pre, Requested).size <= MAX_INLINE_SIZE
                /\ res.text = Seen(pre, Requested).data
           /\ res.shape \in {"image", "blob"} =>
                /\ Seen(pre, Requested).size <= MAX_BASE64_SIZE
                /\ res.blob = Base64(Seen(pre, Requested).data)
           /\ res.shape \in {"reference", "directory"} =>
                /\ res.text = <<>> /\ res.blob = <<>>
                /\ res.uri = <<"file://">> \o res.valid
           /\ Seen(pre, Requested).kind = "file" /\ Seen(pre, Requested).size > MAX_INLINE_SIZE
                => res.shape = "reference"

\* C15 happens: a text one byte larger than MAX_INLINE_SIZE is answered by a
\* reference.
C15_LargeTextReferenced ==
    /\ ReadsFile
    /\ res.path = pDF
    /\ pre[pDF].mime = "text/plain"
    /\ pre[pDF].size = MAX_INLINE_SIZE + 1
    /\ res.shape = "reference"
    /\ res.uri = <<"file://">> \o pDF

\* C16: read_file on a file that is neither a text nor an image and of at most
\* MAX_BASE64_SIZE bytes answers with a description and an embedded resource
\* that carries the URI, the detected MIME type and the whole content in
\* base64.
C16_SmallBinaryAsBlob ==
    (/\ ReadsFile
     /\ ~isTextFile(Seen(pre, Requested).mime) /\ ~isImageFile(Seen(pre, Requested).mime)
     /\ Seen(pre, Requested).size <= MAX_BASE64_SIZE)
        => /\ res.shape = "blob"
           /\ res.uri = <<"file://">> \o res.valid
           /\ res.mime = Seen(pre, Requested).mime
           /\ res.blob = Base64(Seen(pre, Requested).data)

(***************************************************************************)
(* The properties of write_file on a path whose directories are missing.   *)
(***************************************************************************)
\* C17: write_file to a path inside a root whose parent directories do not
\* exist succeeds (os.WriteFile itself not failing): the parents are created
\* and the file holds the content.
C17_MissingParentsCreated ==
    (/\ res.op = "write_file"
     /\ Inside(Requested)
     /\ ParentMissing
     /\ res.msg # "Error writing file")
        => /\ ~res.isError
           /\ Stat(fs, Dir(Requested)) = [err |-> "", isDir |-> TRUE]
           /\ Seen(fs, Requested).kind = "file"
           /\ Seen(fs, Requested).data = res.text

(***************************************************************************)
(* The properties of batch_operations.                                     *)
(***************************************************************************)
\* A batch that was run: the call itself did not fail.
Batched == res.op = "batch_operations" /\ ~res.isError

pDZ == <<"/", "d", "/", "z">>

\* What operation k of the request returns, and leaves, when it finds f.
OutcomeOn(f, k) ==
    IF ~res.ops[k].map THEN BatchError(f, "invalid format")
    ELSE processBatchOperation(f, allowedDirs, res.ops[k])

\* The filesystem after the last of the outcomes so far.
LeftBy(outcomes) == IF outcomes = <<>> THEN pre ELSE outcomes[Len(outcomes)].fs

RECURSIVE Outcomes(_)
\* The outcomes of the first k operations of the request when they run one
\* after the other, each on what the one before left, from the filesystem the
\* request found.
Outcomes(k) ==
    IF k = 0 THEN <<>>
    ELSE CHOOSE t \in {Append(o, OutcomeOn(LeftBy(o), k)) : o \in {Outcomes(k - 1)}} : TRUE

\* The filesystem once the first k operations have run.
StateAfter(outcomes, k) == IF k = 0 THEN pre ELSE outcomes[k].fs

\* Operation i is reported as done, or as failed.
Succeeded(i) == \E j \in DOMAIN res.items : res.items[j].num = i
FailedOp(i) == \E j \in DOMAIN res.errors : res.errors[j].num = i

Ascending(reports) ==
    \A j \in DOMAIN reports : \A k \in DOMAIN reports : j < k => reports[j].num < reports[k].num

\* C18: the operations of a batch run one at a time in the order of the
\* request: operation i succeeds or fails as it does on the filesystem that
\* operations 1..i-1 left, the reports keep that order, and the batch leaves
\* what the last operation left.
C18_BatchInDeclaredOrder ==
    Batched
        => \A o \in {Outcomes(Len(res.ops))} :
              /\ \A i \in DOMAIN res.ops : Succeeded(i) <=> o[i].err = ""
              /\ Ascending(res.items) /\ Ascending(res.errors)
              /\ fs = StateAfter(o, Len(res.ops))

\* C18 happens: /d/z/n is written by the operation that follows the creation
\* of /d/z, which the request did not find.
C18_WrittenIntoCreatedDirectory ==
    /\ Batched
    /\ res.ops = <<OnPath("MKDIR", pDZ), Writing(pDZN, <<"c", "d">>)>>
    /\ pDZ \notin DOMAIN pre
    /\ Succeeded(1) /\ Succeeded(2)
    /\ pDZN \in DOMAIN fs /\ fs[pDZN] = File(<<"c", "d">>)

Reports(i) ==
    Cardinality({j \in DOMAIN res.items : res.items[j].num = i})
        + Cardinality({j \in DOMAIN res.errors : res.errors[j].num = i})

\* C19: in a batch of 1 to 50 operations every operation is reported exactly
\* once, as done or as failed, and the two counts add up to the number of
\* operations; an operation that fails does not stop the ones after it, and
\* what was done before it stands: after a run of failures the filesystem is
\* the one the last success (or the request) left.
C19_FailureNeitherStopsNorUndoes ==
    Batched
        => /\ Len(res.ops) \in 1..maxOperations
           /\ \A i \in DOMAIN res.ops : Reports(i) = 1
           /\ res.count = Len(res.items) /\ res.failed = Len(res.errors)
           /\ res.count + res.failed = Len(res.ops)
           /\ \A o \in {Outcomes(Len(res.ops))} : \A i \in 0..Len(res.ops) :
                ((i = 0 \/ Succeeded(i)) /\ \A j \in (i + 1)..Len(res.ops) : FailedOp(j))
                    => fs = StateAfter(o, i)

\* C19 happens: the write into the missing /d/z fails, the creation of /d/z
\* after it is done.
C19_DoneAfterFailure ==
    /\ Batched
    /\ res.ops = <<Writing(pDZN, <<"c", "d">>), OnPath("MKDIR", pDZ)>>
    /\ FailedOp(1) /\ Succeeded(2)
    /\ res.count = 1 /\ res.failed = 1
    /\ pDZ \in DOMAIN fs /\ pDZN \notin DOMAIN fs

(***************************************************************************)
(* The properties of read_multiple_files.                                  *)
(***************************************************************************)
\* A request of 1 to 50 paths, all of them strings.
ManyAsked ==
    /\ res.op = "read_multiple_files"
    /\ Len(res.paths) \in 1..maxFiles
    /\ \A i \in DOMAIN res.paths : res.paths[i].str

\* The items that open the result of a path: every item but the content or
\* description that follows a "File" header.
Opens(j) == res.items[j].kind \notin {"content", "Binary file"}

\* The position of the item that opens the result of the k-th path.
Opening(k) ==
    CHOOSE j \in DOMAIN res.items :
        Opens(j) /\ Cardinality({m \in 1..j : Opens(m)}) = k

\* The path names a file inside /d that can be inlined.
Inlinable(p) ==
    /\ Inside(p)
    /\ EvalSymlinks(pre, p).err = "" /\ Inside(EvalSymlinks(pre, p).path)
    /\ Seen(pre, p).kind = "file"
    /\ Seen(pre, p).size <= MAX_INLINE_SIZE

\* The result of path p at position j is the file: its header, then its
\* content when it is a text and its description when it is not.
Delivered(p, j) ==
    /\ res.items[j].kind = "File"
    /\ j + 1 \in DOMAIN res.items
    /\ IF isTextFile(Seen(pre, p).mime)
       THEN res.items[j + 1].kind = "content" /\ res.items[j + 1].text = Seen(pre, p).data
       ELSE res.items[j + 1].kind = "Binary file"

\* C20: a read_multiple_files request of 1 to 50 paths is answered without
\* error, with a result for every path in the order of the request; a path
\* that is refused, missing, a directory, too large or unreadable has its
\* report in place, and every file that can be read is delivered whatever
\* happened to the other paths.
C20_EveryPathAnswered ==
    ManyAsked
        => /\ ~res.isError
           /\ Cardinality({j \in DOMAIN res.items : Opens(j)}) = Len(res.paths)
           /\ \A i \in DOMAIN res.paths :
                /\ res.items[Opening(i)].path = Shortcut(res.paths[i].path)
                /\ IF Inlinable(Abs(Shortcut(res.paths[i].path)))
                   THEN \/ Delivered(Abs(Shortcut(res.paths[i].path)), Opening(i))
                        \/ res.items[Opening(i)].kind = "Error reading file"
                   ELSE res.items[Opening(i)].kind \in
                            {"Error with path", "Error accessing", "is a directory", "too large"}

\* C20 happens: the link that leaves /d is refused and the text after it is
\* delivered.
C20_ReadAfterRefusal ==
    /\ ManyAsked
    /\ res.paths = <<Str(pDL), Str(pDF)>>
    /\ Len(res.items) = 3
    /\ res.items[1].kind = "Error with path" /\ res.items[1].path = pDL
    /\ res.items[2].kind = "File" /\ res.items[2].path = pDF
    /\ res.items[3].kind = "content" /\ res.items[3].text = <<"a", "b">>

(***************************************************************************)
(* The properties of chunked_write.                                        *)
(***************************************************************************)
\* The results m..Len(hist) are successful chunked writes of chunks 0, 1, ...
\* in that order on one path.
ChunkRun(m) ==
    /\ m \in DOMAIN hist
    /\ \A k \in m..Len(hist) :
          /\ hist[k].op = "chunked_write"
          /\ ~hist[k].isError
          /\ hist[k].count = k - m
          /\ hist[k].path = hist[m].path

RECURSIVE ChunksFrom(_)
\* The contents of the chunks m..Len(hist), one after the other.
ChunksFrom(m) == IF m > Len(hist) THEN <<>> ELSE hist[m].text \o ChunksFrom(m + 1)

\* C21: after successful chunked_write calls for chunks 0, 1, ..., n-1 in that
\* order on one path, the file holds the contents of the n chunks one after the
\* other, whatever it held and whatever was written before.
C21_ChunksConcatenated ==
    \A m \in DOMAIN hist :
        ChunkRun(m) => /\ Seen(fs, Abs(hist[m].path)).kind = "file"
                       /\ Seen(fs, Abs(hist[m].path)).data = ChunksFrom(m)

\* C21 happens: chunks 0 and 1 written on /d/f, which held "ab".
C21_TwoChunksWritten ==
    /\ Len(hist) = 2
    /\ ChunkRun(1)
    /\ hist[1].path = pDF /\ hist[1].text = <<"c", "d">> /\ hist[2].text = <<"e">>
    /\ fs[pDF].data = <<"c", "d", "e">>

(***************************************************************************)
(* The properties of join_files.                                           *)
(***************************************************************************)
RECURSIVE JoinedFrom(_)
\* The contents the sources i.. of the request held when it began, one after
\* the other.
JoinedFrom(i) ==
    IF i > Len(res.paths) THEN <<>>
    ELSE IF ~res.paths[i].str THEN JoinedFrom(i + 1)
    ELSE Seen(pre, Abs(res.paths[i].path)).data \o JoinedFrom(i + 1)

\* C22: after a successful join_files the target holds the contents the
\* sources had when the call was made, one after the other in the given order.
C22_JoinConcatenates ==
    (/\ res.op = "join_files" /\ ~res.isError
     /\ \A i \in DOMAIN res.paths :
           res.paths[i].str => Seen(pre, Abs(res.paths[i].path)).kind = "file")
        => /\ Seen(fs, Requested).kind = "file"
           /\ Seen(fs, Requested).data = JoinedFrom(1)

(***************************************************************************)
(* The properties of copy_file.                                            *)
(***************************************************************************)
\* C23: after a successful copy_file(x, y) of a regular file x of at most
\* MAX_INLINE_SIZE bytes, y holds the content x held before the call.
C23_CopyKeepsContent ==
    (/\ res.op = "copy_file" /\ ~res.isError
     /\ Seen(pre, Abs(res.path)).kind = "file"
     /\ Seen(pre, Abs(res.path)).size <= MAX_INLINE_SIZE)
        => /\ Seen(fs, Abs(res.new)).kind = "file"
           /\ Seen(fs, Abs(res.new)).data = Seen(pre, Abs(res.path)).data

\* C23, when source and destination are not the same file.
C23_CopyKeepsContentApart ==
    (/\ res.op = "copy_file" /\ ~res.isError
     /\ Seen(pre, Abs(res.path)).kind = "file"
     /\ Seen(pre, Abs(res.path)).size <= MAX_INLINE_SIZE
     /\ Resolve(pre, Abs(res.path)).path # Resolve(pre, Abs(res.new)).path)
        => /\ Seen(fs, Abs(res.new)).kind = "file"
           /\ Seen(fs, Abs(res.new)).data = Seen(pre, Abs(res.path)).data
           /\ Seen(fs, Abs(res.path)) = Seen(pre, Abs(res.path))

\* C23 happens: /d/f copied to the new name /d/n.
C23_CopiedToNewName ==
    /\ res.op = "copy_file" /\ ~res.isError
    /\ res.path = pDF /\ res.new = pDN
    /\ pDN \notin DOMAIN pre
    /\ fs[pDN].data = pre[pDF].data /\ pre[pDF].data # <<>>

(***************************************************************************)
(* The properties of watch_file.                                           *)
(***************************************************************************)
\* Twice the time asked for, in half seconds as the parameter is given.
WatchAsked == IF watch.timeoutParam > 0 THEN watch.timeoutParam ELSE 2 * defaultTimeout

\* C24: every watch_file call returns, and returns no later than the timeout
\* (30 s by default) plus one polling interval of one second after it began,
\* whether the file changes, is deleted, or stays as it is.
C24_WatchReturnsInTime ==
    /\ [](watch.pc = "done" => 2 * (watch.returned - hist[1].at) <= WatchAsked + 2)
    /\ [](watch.pc \in {"poll", "sleep", "return"} => 2 * (clock - hist[1].at) <= WatchAsked + 2)
    /\ (watch.pc = "poll" ~> watch.pc = "done")

\* C24 happens: a watch with the default timeout has run its whole time on
\* a file that changed meanwhile.
C24_WatchedToTheEnd ==
    /\ watch.pc = "done"
    /\ watch.timeoutParam = 0
    /\ watch.returned - hist[1].at = defaultTimeout
    /\ Len(watch.events) >= 1
    /\ watch.events[Len(watch.events)].event = "modified"

\* The baseline of the poll that emitted event i: the modification time of
\* the last change reported before it, or the one found when the call began.
RECURSIVE WatchBaseline(_)
WatchBaseline(i) ==
    IF i <= 1 THEN hist[1].modTime
    ELSE IF watch.events[i - 1].event = "modified" THEN watch.events[i - 1].timestamp
    ELSE WatchBaseline(i - 1)

\* C26: in the event list of a watch, "deleted" ends the watch, so it is
\* the last event and occurs at most once; "modified" is emitted only with
\* a modification time that differs from the baseline, and the baseline is
\* then that modification time.
C26_WatchEvents ==
    watch.pc # "idle" =>
        /\ \A i \in DOMAIN watch.events :
              /\ watch.events[i].event \in {"modified", "deleted"}
              /\ watch.events[i].event = "deleted" =>
                    i = Len(watch.events) /\ watch.pc \in {"return", "done"}
              /\ watch.events[i].event = "modified" =>
                    watch.events[i].timestamp # WatchBaseline(i)
        /\ watch.initialStat = WatchBaseline(Len(watch.events) + 1)

\* C26 happens: two changes were reported, then the deletion, and the call
\* has returned the three events.
C26_ModifiedTwiceThenDeleted ==
    /\ watch.pc = "done"
    /\ res.op = "watch_file"
    /\ Len(res.items) = 3
    /\ res.items[1].event = "modified" /\ res.items[2].event = "modified"
    /\ res.items[3].event = "deleted"

\* The table of os.Stat answers agrees with the filesystem.
StatsAgree ==
    mtime # <<>> => \A p \in StatPaths : mtime[p].err = Resolve(fs, p).err

(***************************************************************************)
(* The paths a handler uses, and what it leaves alone.                     *)
(***************************************************************************)
\* The system calls of the sandbox validation itself.
ValidationCalls == {"stat", "evalsymlinks"}

\* C25: every path a handler hands to a filesystem operation is the path the
\* sandbox validation returned; a path derived from it (<path>.backup) is not
\* used.
C25_OnlyValidatedPathsUsed ==
    res.op = "edit_file" =>
        \A c \in res.sys : c.call \notin ValidationCalls => c.path = res.valid

\* C25, in its effect: what a request changes lies where the validated path
\* leads.
C25_OnlyValidatedPathsChanged ==
    res.op = "edit_file" =>
        \A q \in DOMAIN pre \cup DOMAIN fs :
            (q \notin DOMAIN fs \/ q \notin DOMAIN pre \/ fs[q] # pre[q])
                => res.valid # <<>> /\ q = Resolve(pre, res.valid).path

\* C28: edit_file creates, modifies and deletes no file but its target; the
\* /d/f.backup that was there before the call is there after it, with the
\* content it had.
C28_EditLeavesOtherFiles ==
    res.op = "edit_file" =>
        /\ \A q \in (DOMAIN pre \cup DOMAIN fs) \ {Abs(res.path)} :
              q \in DOMAIN fs /\ q \in DOMAIN pre /\ fs[q] = pre[q]
        /\ pDFBackup \in DOMAIN pre =>
              pDFBackup \in DOMAIN fs /\ Seen(fs, pDFBackup) = Seen(pre, pDFBackup)

(***************************************************************************)
(* The properties of compare_files.                                        *)
(***************************************************************************)
ComparedTexts ==
    /\ res.op = "compare_files" /\ ~res.isError
    /\ isTextFile(detectMimeType(fs, res.valid)) /\ isTextFile(detectMimeType(fs, res.dest))

\* C27: in a text comparison, an Added line that is the new side of a Modified
\* entry is not in the Added lines of the result.
C27_ModifiedNotAdded ==
    ComparedTexts =>
        \A k \in DOMAIN res.diff.Modified :
            ~Among(res.diff.Modified[k].added, res.diff.Added)

\* C29: compare_files answers "Files are identical" only for two files of
\* the same content.
C29_IdenticalOnlyWhenSame ==
    res.op = "compare_files" /\ res.shape = "identical"
        => Seen(fs, Abs(res.path)).data = Seen(fs, Abs(res.new)).data

(***************************************************************************)
(* The properties of the directory copy.                                   *)
(***************************************************************************)
\* What stands at q after the copy is the copy of an entry the source tree
\* held when the call began, or the destination or a directory above it.
CopiedFromSource(q) ==
    \/ HasPrefix(res.dest \o <<Sep>>, q \o <<Sep>>)
    \/ /\ HasPrefix(q, res.dest \o <<Sep>>)
       /\ (res.valid \o SubSeq(q, Len(res.dest) + 1, Len(q))) \in DOMAIN pre

====
